---- MODULE Spec2Model ----
(***************************************************************************)
(* sdcadm: the UpdateAgentV1 procedure (lib/procedures/update-agent-v1.js, *)
(* here src/unnamed/part_001) and the error classes it uses                *)
(* (lib/errors.js, here src/unnamed/part_000).                             *)
(*                                                                         *)
(* One execute() call is modelled as a state machine over the callbacks    *)
(* the Node.js event loop runs: the responses of sdcadm.listInsts,         *)
(* cnapi.post, cnapi.getTask and cnapi.getServer, the 5 second timers of   *)
(* the two pollers, and the setImmediate callbacks of the vasync queue.    *)
(* Each action is one such callback, run to completion.                    *)
(*                                                                         *)
(* Strings that the code only formats are kept as sequences of tokens; a   *)
(* "\n" token is a line break.                                             *)
(***************************************************************************)
EXTENDS Integers, Sequences, FiniteSets, TLC

\* ---------------------------------------------------------------- bounds

\* Longest plan (this.changes) explored.
MaxChanges == 2
\* Most instances in one Change of an ordinary plan.
MaxInsts == 2
\* Number of instances of the one Change of the wide plan: more than
\* CN_CONCUR, so that the queue has to hold instances back.
BigInsts == 11
\* On a server that is not in HungServers a poll answers "not yet" at most
\* this many times before it answers something terminal.
MaxPending == 1
\* The servers whose install task may stay pending for the whole budget.
HungServers == {1}
\* Most children of a MultiError made from a list of errors.
MaxErrs == 2
\* Most servers cnapi.listServers answers with.
MaxServers == 2

\* ------------------------------------------------------ program constants

CN_CONCUR == 10
limit == 60

CnAgent == "cn-agent"
OtherAgent == "vm-agent"
Services == {CnAgent, OtherAgent}

\* ------------------------------------------------------------- lib/errors

NoCause == <<>>

SdcAdmError(options) ==
    [code |-> options.code, exitStatus |-> options.exitStatus,
     message |-> options.message, cause |-> options.cause]

\* new InternalError(options): options holds message and cause.
InternalError(options) ==
    SdcAdmError([cause |-> options.cause, message |-> options.message,
                 code |-> "InternalError", exitStatus |-> 1])

\* new UsageError(message) or new UsageError(cause, message): args is the
\* argument list.
UsageError(args) ==
    SdcAdmError([cause |-> IF Len(args) = 1 THEN NoCause ELSE <<args[1]>>,
                 message |-> args[Len(args)],
                 code |-> "Usage", exitStatus |-> 2])

\* new UpdateError(cause, message)
UpdateErrorCaused(cause, message) ==
    SdcAdmError([cause |-> <<cause>>, message |-> message,
                 code |-> "Update", exitStatus |-> 2])

\* new UpdateError(message)
UpdateError(message) ==
    SdcAdmError([cause |-> NoCause, message |-> message,
                 code |-> "Update", exitStatus |-> 2])

\* A cause as a node-sdc-clients call hands it over: body is <<>> when the
\* error has no body, else <<b>> with b.code and b.message each <<>> or
\* <<string>>, and b.errors a sequence of [field, code, message].
WellFormedCause(cause) ==
    /\ Len(cause.body) = 1
    /\ Len(cause.body[1].message) = 1

RECURSIVE FieldErrorLinesWithoutMessage(_)
FieldErrorLinesWithoutMessage(es) ==
    IF es = <<>> THEN <<>>
    ELSE LET e == Head(es)
         IN  <<"\n", "    ", e.field, ": ", e.code>>
             \o FieldErrorLinesWithoutMessage(Tail(es))

RECURSIVE FieldErrorLines(_)
FieldErrorLines(es) ==
    IF es = <<>> THEN <<>>
    ELSE LET e == Head(es)
         IN  <<"\n", "    ", e.field, ": ", e.code>>
             \o (IF e.message # <<>> THEN <<": ", e.message[1]>> ELSE <<>>)
             \o FieldErrorLines(Tail(es))

\* Defined only for a WellFormedCause: on any other cause the constructor
\* throws (assert-plus, or a TypeError on cause.body).
SDCClientError(cause, clientName) ==
    LET b == cause.body[1]
        codeExtra == IF b.code # <<>> THEN <<" (", b.code[1], ")">> ELSE <<>>
        msg == <<b.message[1]>> \o FieldErrorLines(b.errors)
    IN  SdcAdmError([cause |-> <<cause>>,
                     message |-> <<clientName, " client error">> \o codeExtra
                                 \o <<": ">> \o msg,
                     code |-> "SDCClient", exitStatus |-> 1])

RECURSIVE ChildLinesNewestFirst(_)
ChildLinesNewestFirst(es) ==
    IF es = <<>> THEN <<>>
    ELSE ChildLinesNewestFirst(Tail(es))
         \o <<"\n", "    error (", Head(es).code, "): ">> \o Head(es).message

RECURSIVE ChildLines(_)
ChildLines(es) ==
    IF es = <<>> THEN <<>>
    ELSE <<"\n", "    error (", Head(es).code, "): ">> \o Head(es).message
         \o ChildLines(Tail(es))

MultiErrorOfFirstChild(es) ==
    SdcAdmError([cause |-> IF es = <<>> THEN NoCause ELSE <<es[1]>>,
                 message |-> <<"multiple (", ToString(Len(es)), ") errors">>
                             \o ChildLines(es),
                 code |-> "MultiError",
                 exitStatus |-> IF es = <<>> THEN 1 ELSE es[1].exitStatus])

MultiError(es) ==
    SdcAdmError([cause |-> IF es = <<>> THEN NoCause ELSE <<es[1]>>,
                 message |-> <<"multiple (", ToString(Len(es)), ") errors">>
                             \o ChildLines(es),
                 code |-> "MultiError", exitStatus |-> 1])

\* ------------------------------------------------------------ environment

\* What a failing cnapi call calls back with.
GoodCause ==
    [body |-> <<[code |-> <<"ResourceNotFound">>,
                 message |-> <<"no such server">>,
                 errors |-> <<>>]>>]
\* A transport error: it carries no body.
BareCause == [body |-> <<>>]
RemoteErrs == {GoodCause, BareCause}

\* The error sdcadm.listInsts may call back with; it is handed on as it is.
ListInstsErr ==
    SdcAdmError([cause |-> NoCause, message |-> <<"listInsts failed">>,
                 code |-> "SDCClient", exitStatus |-> 1])

\* Version strings of a cnapi instance, already split at "-"; a field is
\* the sequence of its character codes.
Chars20150407T172714Z ==
    <<50, 48, 49, 53, 48, 52, 48, 55, 84, 49, 55, 50, 55, 49, 52, 90>>
Chars20150101T000000Z ==
    <<50, 48, 49, 53, 48, 49, 48, 49, 84, 48, 48, 48, 48, 48, 48, 90>>
Chars20160101T000000Z ==
    <<50, 48, 49, 54, 48, 49, 48, 49, 84, 48, 48, 48, 48, 48, 48, 90>>
CharsMaster == <<109, 97, 115, 116, 101, 114>>
CharsGit == <<103, 97, 98, 99>>

\* "20150407", a proper prefix of the minimum.
Chars20150407 == <<50, 48, 49, 53, 48, 52, 48, 55>>

\* Besides the usual branch-date-commit: a branch name with a dash in it
\* (its second part looks like a date), a version without branch, a date
\* cut short, and a version without any dash.
CnapiVersions ==
    { <<CharsMaster, Chars20150101T000000Z, CharsGit>>,
      <<CharsMaster, Chars20150407T172714Z, CharsGit>>,
      <<CharsMaster, Chars20160101T000000Z, CharsGit>>,
      <<CharsMaster, Chars20150101T000000Z, Chars20160101T000000Z, CharsGit>>,
      <<CharsMaster, Chars20160101T000000Z, Chars20150101T000000Z, CharsGit>>,
      <<Chars20160101T000000Z, CharsGit>>,
      <<CharsMaster, Chars20150407, CharsGit>>,
      <<CharsMaster>> }

\* cn-agent versions, as <<major, minor, patch>>.
AgentVersions ==
    { <<1, 2, 0>>, <<1, 3, 9>>, <<1, 4, 0>>, <<1, 10, 0>>, <<2, 0, 0>> }

\* The co-located cn-agent instance upAgent finds: <<>> when there is none,
\* else <<v>> with v = <<>> (no version) or <<version>>.
AgentEntries == {<<>>, <<<<>>>>} \cup { <<<<v>>>> : v \in AgentVersions }

\* Messages a failed task's first history event may carry: <<>> is an
\* event without error.
TaskErrors == {<<>>, <<"agent install failed">>}

\* -------------------------------------------------------- pure helpers

MIN_CNAPI_VERSION == Chars20150407T172714Z

\* a > b for JavaScript strings (by code unit, a proper prefix is smaller).
RECURSIVE StrGreater(_, _)
StrGreater(a, b) ==
    IF a = <<>> THEN FALSE
    ELSE IF b = <<>> THEN TRUE
    ELSE IF Head(a) # Head(b) THEN Head(a) > Head(b)
    ELSE StrGreater(Tail(a), Tail(b))

\* parts[parts.length - 2]: <<field>>, or <<>> (undefined) when the version
\* string has a single field.
CurImg(parts) ==
    IF Len(parts) >= 2 THEN <<parts[Len(parts) - 1]>> ELSE <<>>

\* Mutant: the build date is taken from the last field of the version.
CnapiTooOldLastField(parts) ==
    StrGreater(MIN_CNAPI_VERSION, parts[Len(parts)])

\* Mutant: a build of the minimum date itself is too old.
CnapiTooOldOrEqual(parts) ==
    LET curImg == CurImg(parts)
    IN  curImg # <<>> /\ ~StrGreater(curImg[1], MIN_CNAPI_VERSION)

\* MIN_CNAPI_VERSION > curImg; a comparison with undefined is false.
CnapiTooOld(parts) ==
    LET curImg == CurImg(parts)
    IN  curImg # <<>> /\ StrGreater(MIN_CNAPI_VERSION, curImg[1])

SemverLt(a, b) ==
    \/ a[1] < b[1]
    \/ a[1] = b[1] /\ a[2] < b[2]
    \/ a[1] = b[1] /\ a[2] = b[2] /\ a[3] < b[3]

\* Mutant: only versions above 1.4.0 pass.
AgentVersionOkAbove(v) == SemverLt(<<1, 4, 0>>, v)

\* semver.satisfies('1.4.0', v) || semver.ltr('1.4.0', v), v a plain version.
AgentVersionOk(v) == v = <<1, 4, 0>> \/ SemverLt(<<1, 4, 0>>, v)

\* ------------------------------------------- do_nfs_volumes: constants

\* JavaScript values of a metadata entry; === is equality of these.
Undefined == <<"undefined">>
JsTrue == <<"boolean", "true">>
JsFalse == <<"boolean", "false">>
JsString(s) == <<"string", s>>

VALID_FEATURE_NAMES == {"docker", "docker-automount", "cloudapi"}

FEATURE_NAME_TO_SAPI_FLAG(featureName) ==
    CASE featureName = "docker" ->
           "experimental_docker_nfs_shared_volumes"
      [] featureName = "docker-automount" ->
           "experimental_docker_automount_nfs_shared_volumes"
      [] featureName = "cloudapi" ->
           "experimental_cloudapi_nfs_shared_volumes"

SapiFlags == { FEATURE_NAME_TO_SAPI_FLAG(f) : f \in VALID_FEATURE_NAMES }

\* imageDeps: the services whose images a feature depends on, in the order
\* of Object.keys.
ImgDepsNames(featureName) ==
    CASE featureName = "docker" -> <<"vmapi", "workflow", "volapi", "docker">>
      [] featureName = "cloudapi" ->
           <<"vmapi", "workflow", "volapi", "cloudapi">>
      [] OTHER -> <<>>

\* imageDeps[serviceName](version): /tritonnfs/.test(version), a version
\* being the sequence of its parts.
ImageDepOk(version) == \E k \in DOMAIN version : version[k] = "tritonnfs"

\* featureDeps: <<>> stands for undefined.
FeatureDeps(featureName) ==
    IF featureName = "docker-automount" THEN <<"docker">> ELSE <<>>

\* platformVersionDep, as character codes: '20160613T123039Z'; <<>> stands
\* for undefined.
Chars20160613T123039Z ==
    <<50, 48, 49, 54, 48, 54, 49, 51, 84, 49, 50, 51, 48, 51, 57, 90>>
Chars20170101T000000Z ==
    <<50, 48, 49, 55, 48, 49, 48, 49, 84, 48, 48, 48, 48, 48, 48, 90>>
PlatformVersionDep(featureName) ==
    IF featureName = "docker-automount" THEN <<Chars20160613T123039Z>>
    ELSE <<>>

\* No command has been run yet.
NoRun ==
    [step |-> "idle", args |-> <<>>, force |-> FALSE, disable |-> FALSE,
     metadata |-> <<>>, didSomething |-> FALSE,
     calls |-> {}, progress |-> <<>>, failed |-> "", cb |-> <<>>,
     prev |-> <<>>]

\* ------------------------------------------------------------------ state

VARIABLES
    nChanges,   \* this.changes.length
    change,     \* this.changes[cur - 1], the Change updateAgent runs on:
                \* [service, image, n]; instance i of a Change runs on
                \* server i. The next Change is drawn when a Change is done,
                \* which is before anything reads it.
    hung,       \* servers whose install task may stay pending without end
    down,       \* servers cnapi cannot reach: well provisioned, post fails
    pc,         \* "new", "listing", "fanout", "done" or "crashed"
    cur,        \* place in the plan of the Change in progress
    insts,      \* per instance of the current Change: the position of its
                \* chain, its poller's counter and the poller's query
    queue,      \* the vasync queue of the current Change
    immq,       \* the event loop's pending setImmediate callbacks, in order
    errs,       \* the failure collector of execute()
    input,      \* what the latest callback was called with: the reply of
                \* the remote call or, for upAgent, arg.server, arg.image
                \* and the cn-agent instance of that server
    started,    \* history: upAgent invocations, per instance of the
                \* current Change
    posts,      \* history: install-agent calls, per instance
    polls,      \* history: getTask/getServer calls, per instance
    result,     \* history: how each instance's chain ended
    recorded,   \* history: the instances whose failure went to errs, in
                \* the order of the pushes
    calls,      \* history: the kinds of remote calls made for the Change
                \* in progress, a set of "list", "post", "poll"
    endRuns,    \* history: runs of the queue's end handler, per Change
    outcome,    \* history: what each Change handed to nextSvc, <<>> while
                \* it has not
    cbArgs,     \* history: the arguments of each call of execute's callback
    made,       \* lib/errors on its own: the latest call of a constructor
                \* (its class, its arguments and the error it made) or of
                \* a callback wrapped by sdcClientErrWrap (its arguments
                \* and the calls of cb it made); execute leaves it alone
    summary,    \* what the latest call of summarize returned, <<>> before
    sapi,       \* SAPI: the metadata of the SDC application, per feature
                \* the value of the feature's flag
    run         \* the 'nfs-volumes' command in progress or just ended: its
                \* arguments and options, self.sdcadm.sdc.metadata as the
                \* process loaded it, the step of its pipeline, what the
                \* remote calls answered, ctx.didSomething, the calls
                \* made, what was reported, cb's argument, and the same
                \* command's previous run

vars == <<nChanges, change, hung, down, pc, cur, insts, queue, immq, errs,
          input, started, posts, polls, result, recorded, calls, endRuns,
          outcome, cbArgs, made, summary, sapi, run>>

\* What no callback of execute changes.
world == <<nChanges, hung, down, made, summary, sapi, run>>

Servers == DOMAIN insts

ServerName(i) == ToString(i)

Worker(i) == <<"worker", i>>
CloseTick == <<"close", 0>>

NewInst == [st |-> "queued", counter |-> 0, query |-> <<>>]

\* vasync.queue(worker, concurrency): a new WorkQueue; ends counts the
\* 'end' events it has emitted.
NewQueue(concurrency) ==
    [concurrency |-> concurrency, queued |-> <<>>, npending |-> 0,
     closed |-> FALSE, ended |-> FALSE, listening |-> FALSE, ends |-> 0]

NoInput == [kind |-> "none"]
NotMade == [kind |-> "none"]

\* The id cnapi gives the install task of instance i of Change c.
TaskId(c, i) == 100 * c + i

\* The Changes a plan may hold at place c: the image of a Change gets the
\* Change's index as uuid, 0 is the uuid of an image no Change targets.
ChangesAt(c, sizes) ==
    { [service |-> s, image |-> [uuid |-> c], n |-> n] :
      s \in Services, n \in sizes }

InitRest ==
    /\ pc = "new"
    /\ cur = 0
    /\ insts = <<>>
    /\ queue = NewQueue(0)
    /\ immq = <<>>
    /\ errs = <<>>
    /\ input = NoInput
    /\ started = <<>>
    /\ posts = <<>>
    /\ polls = <<>>
    /\ result = <<>>
    /\ recorded = <<>>
    /\ calls = {}
    /\ endRuns = [c \in 1 .. nChanges |-> 0]
    /\ outcome = [c \in 1 .. nChanges |-> <<>>]
    /\ cbArgs = <<>>
    /\ made = NotMade
    /\ summary = <<>>
    /\ run = NoRun

\* The ordinary plans: every server behaves freely. In addition, for the
\* plans of a single Change, the worlds in which the servers of HungServers
\* may never finish their task while cnapi cannot reach the other servers.
InitPlan ==
    /\ nChanges \in 1 .. MaxChanges
    /\ change \in ChangesAt(1, 0 .. MaxInsts)
    /\ hung \in IF nChanges = 1 THEN {{}, HungServers} ELSE {{}}
    /\ down = IF hung = {} THEN {} ELSE (1 .. MaxInsts) \ hung
    /\ InitRest
    /\ sapi = [flag \in SapiFlags |-> Undefined]

\* The wide plans: one Change with more instances than CN_CONCUR, none of
\* whose servers cnapi can reach; and, for the rest of the procedure, the
\* Changes of either service with at most one instance, on a server that
\* behaves freely.
InitWide ==
    /\ nChanges = 1
    /\ change \in ChangesAt(1, {0, 1, BigInsts})
    /\ change.n = BigInsts => change.service = OtherAgent
    /\ hung = {}
    /\ down = IF change.n = BigInsts THEN 1 .. BigInsts ELSE {}
    /\ InitRest
    /\ sapi = [flag \in SapiFlags |-> Undefined]

\* ------------------------------------------------------ the vasync queue

Range(f) == { f[x] : x \in DOMAIN f }

\* The loop condition of WorkQueue.dispatchNext.
CanDispatch(q) == q.queued # <<>> /\ q.npending < q.concurrency

\* WorkQueue.dispatch: the worker is invoked from a setImmediate callback.
Dispatch(s) ==
    [q |-> [s.q EXCEPT !.queued = Tail(@), !.npending = @ + 1],
     immq |-> Append(s.immq, Worker(Head(s.q.queued)))]

RECURSIVE DispatchLoop(_)
DispatchLoop(s) == IF CanDispatch(s.q) THEN DispatchLoop(Dispatch(s)) ELSE s

\* Mutant: 'end' is emitted as soon as nothing is queued, though workers
\* are still pending.
DispatchNextEarlyEnd(s) ==
    IF s.q.queued = <<>>
    THEN IF s.q.closed
         THEN [s EXCEPT !.q.ended = TRUE, !.q.ends = @ + 1]
         ELSE s
    ELSE DispatchLoop(s)

\* WorkQueue.dispatchNext.
DispatchNext(s) ==
    IF s.q.npending = 0 /\ s.q.queued = <<>>
    THEN IF s.q.closed
         THEN [s EXCEPT !.q.ended = TRUE, !.q.ends = @ + 1]
         ELSE s
    ELSE DispatchLoop(s)

\* WorkQueue.push of an array of tasks.
RECURSIVE Push(_, _)
Push(s, tasks) ==
    IF tasks = <<>> THEN s
    ELSE Push(DispatchNext([s EXCEPT !.q.queued = Append(@, Head(tasks))]),
              Tail(tasks))

\* Mutant: closing an empty queue emits 'end' at once, not from a
\* setImmediate callback.
CloseEmitsAtOnce(s) ==
    IF s.q.closed THEN s
    ELSE IF s.q.npending = 0 /\ s.q.queued = <<>>
    THEN [s EXCEPT !.q.closed = TRUE, !.q.ended = TRUE, !.q.ends = @ + 1]
    ELSE [s EXCEPT !.q.closed = TRUE]

\* WorkQueue.close.
Close(s) ==
    IF s.q.closed THEN s
    ELSE IF s.q.npending = 0 /\ s.q.queued = <<>>
    THEN [s EXCEPT !.q.closed = TRUE, !.immq = Append(@, CloseTick)]
    ELSE [s EXCEPT !.q.closed = TRUE]

\* queue.on('end', done)
OnEnd(s) == [s EXCEPT !.q.listening = TRUE]

\* Mutant: the queue is made with a limit one too high.
FanOutOneMore(n, imm) ==
    OnEnd(Close(Push([q |-> NewQueue(CN_CONCUR + 1), immq |-> imm],
                     [i \in 1 .. n |-> i])))

\* vasync.queue(upAgent, CN_CONCUR); queue.push(change.insts);
\* queue.close(); queue.on('end', ...)
FanOut(n, imm) ==
    OnEnd(Close(Push([q |-> NewQueue(CN_CONCUR), immq |-> imm],
                     [i \in 1 .. n |-> i])))

\* ------------------------------------------------------------- execute

\* Mutant: the pipeline goes on after a failed Change and calls back with
\* what the last Change handed on.
FinishChangeGoesOn(err) ==
    /\ outcome' = [outcome EXCEPT ![cur] = <<err>>]
    /\ IF cur = nChanges
       THEN /\ pc' = "done"
            /\ cbArgs' = Append(cbArgs, err)
            /\ UNCHANGED <<cur, change, calls>>
       ELSE /\ pc' = "listing"
            /\ cur' = cur + 1
            /\ change' \in ChangesAt(cur + 1, 0 .. MaxInsts)
            /\ calls' = {"list"}
            /\ UNCHANGED cbArgs

\* Mutant: the first error is handed to the callback at once, and the
\* Changes after the failed one are run all the same.
FinishChangeReportsAndGoesOn(err) ==
    /\ outcome' = [outcome EXCEPT ![cur] = <<err>>]
    /\ cbArgs' = IF cbArgs = <<>> /\ (err # <<>> \/ cur = nChanges)
                 THEN Append(cbArgs, err)
                 ELSE cbArgs
    /\ IF cur = nChanges
       THEN /\ pc' = "done"
            /\ UNCHANGED <<cur, change, calls>>
       ELSE /\ pc' = "listing"
            /\ cur' = cur + 1
            /\ change' \in ChangesAt(cur + 1, 0 .. MaxInsts)
            /\ calls' = {"list"}

\* Mutant: the pipeline calls back after its first Change.
FinishChangeStopsEarly(err) ==
    /\ outcome' = [outcome EXCEPT ![cur] = <<err>>]
    /\ pc' = "done"
    /\ cbArgs' = Append(cbArgs, err)
    /\ UNCHANGED <<cur, change, calls>>

\* The callback forEachPipeline hands to updateAgent as nextSvc: the first
\* error ends the pipeline, the last Change ends it without error, else
\* updateAgent runs on the next Change and calls sdcadm.listInsts.
FinishChange(err) ==
    /\ outcome' = [outcome EXCEPT ![cur] = <<err>>]
    /\ IF err # <<>> \/ cur = nChanges
       THEN /\ pc' = "done"
            /\ cbArgs' = Append(cbArgs, err)
            /\ UNCHANGED <<cur, change, calls>>
       ELSE /\ pc' = "listing"
            /\ cur' = cur + 1
            /\ change' \in ChangesAt(cur + 1, 0 .. MaxInsts)
            /\ calls' = {"list"}
            /\ UNCHANGED cbArgs

\* Mutant: the children of the MultiError are listed last failure first.
EndErrorReversed(es) ==
    IF Len(es) > 0
    THEN <<MultiError([k \in 1 .. Len(es) |-> es[Len(es) + 1 - k]])>>
    ELSE <<>>

\* Mutant: the end handler builds a MultiError whatever errs holds.
EndErrorAlways(es) == <<MultiError(es)>>

\* What the queue's end handler hands to next().
EndError(es) == IF Len(es) > 0 THEN <<MultiError(es)>> ELSE <<>>

\* queue.on('end', function done() ...)
EndHandler(es) ==
    /\ endRuns' = [endRuns EXCEPT ![cur] = @ + 1]
    /\ FinishChange(EndError(es))

\* What a callback leaves alone when it does not end the change.
ChangeGoesOn == UNCHANGED <<pc, cur, change, calls, cbArgs, endRuns, outcome>>

\* execute(): forEachPipeline starts updateAgent on the first change.
Execute ==
    /\ pc = "new"
    /\ pc' = "listing"
    /\ cur' = 1
    /\ calls' = {"list"}
    /\ UNCHANGED <<world, change, insts, queue, immq, errs, input, started,
                   posts, polls, result, recorded, endRuns, outcome, cbArgs>>

TooOldError ==
    UpdateError(<<"image for cnapi is too old for sdcadm update agents">>)

\* The callback of sdcadm.listInsts in checkMinCNAPIVersion and, when the
\* check passes, updateAgentOnServers up to queue.on('end').
ListInstsResponse ==
    /\ pc = "listing"
    /\ \E r \in {[err |-> <<ListInstsErr>>, version |-> <<>>]}
               \cup {[err |-> <<>>, version |-> v] : v \in CnapiVersions} :
        /\ input' = [kind |-> "listInsts", err |-> r.err,
                      version |-> r.version]
        /\ IF r.err # <<>>
           THEN /\ FinishChange(r.err)
                /\ UNCHANGED <<insts, queue, immq, started, posts, polls, result,
                               recorded, endRuns>>
           ELSE IF CnapiTooOld(r.version)
           THEN /\ FinishChange(<<TooOldError>>)
                /\ UNCHANGED <<insts, queue, immq, started, posts, polls, result,
                               recorded, endRuns>>
           ELSE LET s == FanOut(change.n, immq)
                IN  /\ pc' = "fanout"
                    /\ queue' = s.q
                    /\ immq' = s.immq
                    /\ insts' = [i \in 1 .. change.n |->
                                    IF Worker(i) \in Range(s.immq)
                                    THEN [NewInst EXCEPT !.st = "sched"]
                                    ELSE NewInst]
                    /\ started' = [i \in 1 .. change.n |-> 0]
                    /\ posts' = [i \in 1 .. change.n |-> 0]
                    /\ polls' = [i \in 1 .. change.n |-> 0]
                    /\ result' = [i \in 1 .. change.n |->
                                     [done |-> FALSE, err |-> <<>>]]
                    /\ recorded' = <<>>
                    /\ UNCHANGED <<cur, change, calls, cbArgs, endRuns,
                                   outcome>>
    /\ UNCHANGED <<world, errs>>

\* The done callback the queue hands to upAgent, called with the error
\* `passed` (<<>> when none) after `pushed` went to errs; s is the queue and
\* the event loop after the queue has handled the call.
CompleteWith(i, pushed, passed, s) ==
    LET errs1 == errs \o pushed
    IN  /\ errs' = errs1
        /\ result' = [result EXCEPT ![i] =
                         [done |-> TRUE, err |-> pushed \o passed]]
        /\ recorded' = IF pushed # <<>> THEN Append(recorded, i)
                       ELSE recorded
        /\ queue' = s.q
        /\ immq' = s.immq
        /\ insts' = [j \in DOMAIN insts |->
                        IF j = i THEN [insts[j] EXCEPT !.st = "done"]
                        ELSE IF Worker(j) \in Range(s.immq)
                        THEN [insts[j] EXCEPT !.st = "sched"]
                        ELSE insts[j]]
        /\ IF s.q.ends > queue.ends /\ s.q.listening
           THEN EndHandler(errs1)
           ELSE ChangeGoesOn

\* Mutant: the first failure of an instance ends the fan-out, the
\* instances still waiting are dropped.
CompleteAborting(i, pushed, passed, immq1) ==
    CompleteWith(i, pushed, passed,
        IF pushed \o passed # <<>>
        THEN [q |-> [queue EXCEPT !.npending = 0, !.queued = <<>>,
                                  !.ended = TRUE, !.ends = @ + 1],
              immq |-> SelectSeq(immq1, LAMBDA x : x[1] # "worker")]
        ELSE DispatchNext([q |-> [queue EXCEPT !.npending = @ - 1],
                           immq |-> immq1]))

\* Mutant: an instance that failed is queued once more.
CompleteRetrying(i, pushed, passed, immq1) ==
    CompleteWith(i, pushed, passed,
        DispatchNext([q |-> [queue EXCEPT
                               !.npending = @ - 1,
                               !.queued = IF pushed \o passed # <<>>
                                             /\ started[i] < 2
                                          THEN Append(@, i) ELSE @],
                      immq |-> immq1]))

\* The queue has no per-task callback to hand `passed` to: it frees the
\* slot and dispatches.
Complete(i, pushed, passed, immq1) ==
    CompleteWith(i, pushed, passed,
        DispatchNext([q |-> [queue EXCEPT !.npending = @ - 1],
                      immq |-> immq1]))

\* An uncaught exception in a callback ends the process.
Crash ==
    /\ pc' = "crashed"
    /\ UNCHANGED <<cur, change, calls, cbArgs, endRuns, outcome, errs,
                   result, recorded, queue, insts>>

\* A version as format's %s prints it.
VersionTokens(v) ==
    <<ToString(v[1]), ".", ToString(v[2]), ".", ToString(v[3])>>

\* The checks of upAgent before the install-agent call: the error to
\* record, if any.
PreconditionError(service, server, image, agent) ==
    IF image = "none"
    THEN <<UpdateError(<<"Unknown image for ", service,
                         " in server ", ServerName(server)>>)>>
    ELSE IF agent[1] = <<>>
    THEN <<UpdateError(<<"Unknown version for cn-agent in server ",
                         ServerName(server)>>)>>
    ELSE IF ~AgentVersionOk(agent[1][1])
    THEN <<UpdateError(<<"Invalid cn-agent version in server ",
                         ServerName(server),
                         ". Minimal version to run agent updates is 1.4.0",
                         " (current version is ">>
                       \o VersionTokens(agent[1][1]) \o <<")">>)>>
    ELSE <<>>

\* cnAgentInstance.version is read of an undefined cnAgentInstance.
ReadsUndefined(image, agent) == image # "none" /\ agent = <<>>

\* What upAgent may find for instance i: for the cn-agent service the
\* cn-agent instance is arg itself. An instance without image is drawn
\* without cn-agent instance or with one without version: the code does
\* not read the version of an instance without image.
WorkerReads(i) ==
    { a \in [kind : {"upAgent"}, server : {i},
             image : {"resolved", "none"}, agent : AgentEntries] :
        /\ change.service = CnAgent => a.agent # <<>>
        /\ a.image = "none" => a.agent \in {<<>>, <<<<>>>>}
        /\ i \in down =>
              a.image = "resolved" /\ a.agent = <<<<<<1, 4, 0>>>>>> }

\* The setImmediate callback of WorkQueue.dispatch: upAgent(arg, cb) up to
\* the cnapi.post call. arg.image and the cn-agent instance of arg.server
\* are drawn here, where the code first reads them.
RunWorker(i) ==
    /\ pc = "fanout"
    /\ immq # <<>> /\ Head(immq) = Worker(i)
    /\ started' = [started EXCEPT ![i] = @ + 1]
    /\ \E a \in WorkerReads(i) :
        /\ input' = a
        /\ IF ReadsUndefined(a.image, a.agent)
           THEN /\ Crash
                /\ immq' = Tail(immq)
                /\ UNCHANGED posts
           ELSE IF PreconditionError(change.service, i, a.image, a.agent)
                   # <<>>
           THEN /\ Complete(i, PreconditionError(change.service, i, a.image,
                                                 a.agent),
                            <<>>, Tail(immq))
                /\ UNCHANGED posts
           ELSE /\ insts' = [insts EXCEPT ![i].st = "post"]
                /\ immq' = Tail(immq)
                /\ posts' = [posts EXCEPT ![i] = @ + 1]
                /\ calls' = calls \cup {"post"}
                /\ UNCHANGED <<pc, cur, change, cbArgs, endRuns, outcome,
                               errs, result, recorded, queue>>
    /\ UNCHANGED <<world, polls>>

\* The setImmediate callback of WorkQueue.close on an empty queue.
RunCloseTick ==
    /\ pc = "fanout"
    /\ immq # <<>> /\ Head(immq) = CloseTick
    /\ immq' = Tail(immq)
    /\ input' = [kind |-> "close"]
    /\ IF ~queue.ended
       THEN /\ queue' = [queue EXCEPT !.ended = TRUE, !.ends = @ + 1]
            /\ IF queue.listening THEN EndHandler(errs) ELSE ChangeGoesOn
       ELSE UNCHANGED queue /\ ChangeGoesOn
    /\ UNCHANGED <<world, insts, errs, started, posts, polls, result,
                   recorded>>

\* What cnapi may answer to the install-agent call of instance i.
PostReplies(i) ==
    IF i \in down THEN {[err |-> <<GoodCause>>, id |-> 0]}
    ELSE {[err |-> <<e>>, id |-> 0] : e \in RemoteErrs}
         \cup {[err |-> <<>>, id |-> TaskId(cur, i)]}

\* Mutant: every service is polled by task id.
PollTargetAlwaysTask(service, server, resId) == <<"getTask", resId>>

\* The poller cnapiCb picks and its argument.
PollTarget(service, server, resId) ==
    IF service = CnAgent THEN <<"getServer", server>>
    ELSE <<"getTask", resId>>

\* cnapiCb, the callback of cnapi.post, up to the poller's first query.
PostResponse(i) ==
    /\ pc = "fanout"
    /\ i \in DOMAIN insts /\ insts[i].st = "post"
    /\ \E r \in PostReplies(i) :
        /\ input' = [kind |-> "post", server |-> i, err |-> r.err,
                      id |-> r.id]
        /\ IF r.err # <<>>
           THEN IF ~WellFormedCause(r.err[1])
                THEN /\ Crash
                     /\ UNCHANGED <<immq, polls>>
                ELSE /\ Complete(i, <<>>, <<SDCClientError(r.err[1], "cnapi")>>,
                                 immq)
                     /\ UNCHANGED polls
           ELSE /\ insts' = [insts EXCEPT
                                ![i].st = "poll",
                                ![i].counter = 1,
                                ![i].query =
                                    PollTarget(change.service, i, r.id)]
                /\ polls' = [polls EXCEPT ![i] = @ + 1]
                /\ calls' = calls \cup {"poll"}
                /\ UNCHANGED <<pc, cur, change, cbArgs, endRuns, outcome, errs,
                               result, recorded, queue, immq>>
    /\ UNCHANGED <<world, started, posts>>

\* Whether the remote may still answer "not yet" to the poll of instance i.
MayWait(i) == i \in hung \/ insts[i].counter <= MaxPending

TaskReplies(i) ==
    {[err |-> <<e>>, status |-> "", error |-> <<>>] : e \in RemoteErrs}
    \cup {[err |-> <<>>, status |-> "failure", error |-> m] :
          m \in TaskErrors}
    \cup {[err |-> <<>>, status |-> "complete", error |-> <<>>]}
    \cup (IF MayWait(i)
          THEN {[err |-> <<>>, status |-> st, error |-> <<>>] :
                st \in {"pending", "queued", "unknown"}}
          ELSE {})

\* Mutant: only a pending task is polled again, any other status that is
\* not complete counts as a failure.
WaitTaskStepPendingOnly(counter, task, taskid) ==
    IF task.status = "complete"
    THEN [do |-> "cb", err |-> <<>>]
    ELSE IF task.status # "pending"
    THEN [do |-> "cb",
          err |-> <<UpdateError(<<"Task ", ToString(taskid), " failed">>)>>]
    ELSE IF counter < limit
    THEN [do |-> "timer", err |-> <<>>]
    ELSE [do |-> "cb",
          err |-> <<UpdateError(<<"Timeout(5m) waiting for task ",
                                  ToString(taskid)>>)>>]

\* Mutant: a failed task is polled again like a pending one.
WaitTaskStepRetries(counter, task, taskid) ==
    IF task.status = "complete"
    THEN [do |-> "cb", err |-> <<>>]
    ELSE IF counter < limit
    THEN [do |-> "timer", err |-> <<>>]
    ELSE [do |-> "cb",
          err |-> <<UpdateError(<<"Timeout(5m) waiting for task ",
                                  ToString(taskid)>>)>>]

\* The branches of _waitTask's callback on a task: call _cb (with err, or
\* with none) or set the timer.
WaitTaskStep(counter, task, taskid) ==
    IF task.status = "failure"
    THEN [do |-> "cb",
          err |-> <<UpdateError(
                      <<"Task ", ToString(taskid), " failed">>
                      \o (IF task.error # <<>>
                          THEN <<" with error: ", task.error[1]>>
                          ELSE <<>>))>>]
    ELSE IF task.status = "complete"
    THEN [do |-> "cb", err |-> <<>>]
    ELSE IF counter < limit
    THEN [do |-> "timer", err |-> <<>>]
    ELSE [do |-> "cb",
          err |-> <<UpdateError(<<"Timeout(5m) waiting for task ",
                                  ToString(taskid)>>)>>]

\* Mutant: the budget is tested before the image.
WaitServerStepBudgetFirst(counter, imageUuid, target, server) ==
    IF counter >= limit
    THEN [do |-> "cb",
          err |-> <<UpdateError(<<"Timeout(5m) waiting for cn-agent update ",
                                  "on server ", ServerName(server)>>)>>]
    ELSE IF imageUuid = target
    THEN [do |-> "cb", err |-> <<>>]
    ELSE [do |-> "timer", err |-> <<>>]

\* Mutant: the budget test lets one more query through.
WaitServerStepOneMore(counter, imageUuid, target, server) ==
    IF imageUuid = target
    THEN [do |-> "cb", err |-> <<>>]
    ELSE IF counter <= limit
    THEN [do |-> "timer", err |-> <<>>]
    ELSE [do |-> "cb",
          err |-> <<UpdateError(<<"Timeout(5m) waiting for cn-agent update ",
                                  "on server ", ServerName(server)>>)>>]

\* The branches of _waitServer's callback on the cn-agent entry's image.
WaitServerStep(counter, imageUuid, target, server) ==
    IF imageUuid = target
    THEN [do |-> "cb", err |-> <<>>]
    ELSE IF counter < limit
    THEN [do |-> "timer", err |-> <<>>]
    ELSE [do |-> "cb",
          err |-> <<UpdateError(<<"Timeout(5m) waiting for cn-agent update ",
                                  "on server ", ServerName(server)>>)>>]

\* The callback upAgent hands to the poller: record er3, then cb().
Polled(i, step) ==
    IF step.do = "timer"
    THEN /\ insts' = [insts EXCEPT ![i].st = "timer"]
         /\ UNCHANGED <<pc, cur, change, calls, cbArgs, endRuns, outcome,
                        errs, result, recorded, queue, immq>>
    ELSE Complete(i, step.err, <<>>, immq)

\* Mutant: a query error is retried while the budget lasts.
PollFailedRetries(i, cause) ==
    IF ~WellFormedCause(cause)
    THEN Crash /\ UNCHANGED immq
    ELSE IF insts[i].counter < limit
    THEN /\ insts' = [insts EXCEPT ![i].st = "timer"]
         /\ UNCHANGED <<pc, cur, change, calls, cbArgs, endRuns, outcome,
                        errs, result, recorded, queue, immq>>
    ELSE Complete(i, <<SDCClientError(cause, "cnapi")>>, <<>>, immq)

\* A poll query's error: wrapped, or the wrapping throws.
PollFailed(i, cause) ==
    IF ~WellFormedCause(cause)
    THEN Crash /\ UNCHANGED immq
    ELSE Complete(i, <<SDCClientError(cause, "cnapi")>>, <<>>, immq)

\* The callback of cnapi.getTask in _waitTask.
GetTaskResponse(i) ==
    /\ pc = "fanout"
    /\ i \in DOMAIN insts /\ insts[i].st = "poll"
    /\ insts[i].query[1] = "getTask"
    /\ \E r \in TaskReplies(i) :
        /\ input' = [kind |-> "getTask", server |-> i, err |-> r.err,
                      status |-> r.status, error |-> r.error]
        /\ IF r.err # <<>>
           THEN PollFailed(i, r.err[1])
           ELSE Polled(i, WaitTaskStep(insts[i].counter, r,
                                       insts[i].query[2]))
    /\ UNCHANGED <<world, started, posts, polls>>

ServerReplies(i) ==
    {[err |-> <<e>>, image_uuid |-> 0] : e \in RemoteErrs}
    \cup {[err |-> <<>>, image_uuid |-> change.image.uuid]}
    \cup (IF MayWait(i) THEN {[err |-> <<>>, image_uuid |-> 0]} ELSE {})

\* The callback of cnapi.getServer in _waitServer.
GetServerResponse(i) ==
    /\ pc = "fanout"
    /\ i \in DOMAIN insts /\ insts[i].st = "poll"
    /\ insts[i].query[1] = "getServer"
    /\ \E r \in ServerReplies(i) :
        /\ input' = [kind |-> "getServer", server |-> i, err |-> r.err,
                      image_uuid |-> r.image_uuid]
        /\ IF r.err # <<>>
           THEN PollFailed(i, r.err[1])
           ELSE Polled(i, WaitServerStep(insts[i].counter, r.image_uuid,
                                         change.image.uuid,
                                         insts[i].query[2]))
    /\ UNCHANGED <<world, started, posts, polls>>

\* The 5000 ms timer of a poller fires: _waitTask or _waitServer counts
\* and queries again.
TimerFires(i) ==
    /\ pc = "fanout"
    /\ i \in DOMAIN insts /\ insts[i].st = "timer"
    /\ insts' = [insts EXCEPT ![i].st = "poll", ![i].counter = @ + 1]
    /\ polls' = [polls EXCEPT ![i] = @ + 1]
    /\ input' = [kind |-> "timer", server |-> i]
    /\ UNCHANGED <<world, change, pc, cur, queue, immq, errs, started,
                   posts, result, recorded, calls, endRuns, outcome, cbArgs>>

Next ==
    \/ Execute
    \/ ListInstsResponse
    \/ RunCloseTick
    \/ \E i \in DOMAIN insts : RunWorker(i)
    \/ \E i \in DOMAIN insts : PostResponse(i)
    \/ \E i \in DOMAIN insts : GetTaskResponse(i)
    \/ \E i \in DOMAIN insts : GetServerResponse(i)
    \/ \E i \in DOMAIN insts : TimerFires(i)

\* The image of a Change carries a name and a version besides its uuid;
\* agent images are named after their service and the version follows the
\* uuid.
ImageName(c) == c.service
ImageVersion(c) == <<"1.", ToString(c.image.uuid), ".0">>

\* uaSummarize: one line about this.changes[0].
SummaryOf(c0) ==
    <<"update \"", c0.service, "\" service to image ",
      ToString(c0.image.uuid), " (", ImageName(c0), "@">>
    \o ImageVersion(c0) \o <<")">>

\* summarize() as the caller uses it: before execute, to ask the operator
\* for confirmation. change is this.changes[0] then.
SummarizeAndExecute ==
    /\ pc = "new"
    /\ summary' = SummaryOf(change)
    /\ pc' = "listing"
    /\ cur' = 1
    /\ calls' = {"list"}
    /\ UNCHANGED <<nChanges, hung, down, made, change, insts, queue, immq,
                   errs, input, started, posts, polls, result, recorded,
                   endRuns, outcome, cbArgs, sapi, run>>

Summarize ==
    /\ pc = "new"
    /\ summary' = SummaryOf(change)
    /\ UNCHANGED <<nChanges, hung, down, made, change, pc, cur, insts,
                   queue, immq, errs, input, started, posts, polls, result,
                   recorded, calls, endRuns, outcome, cbArgs, sapi, run>>

Init == InitPlan

Spec == Init /\ [][Next]_vars

SpecWide == InitWide /\ [][Next]_vars

\* The event loop runs every callback that is due: every remote call calls
\* back, every timer fires, every setImmediate callback runs.
SpecFair == Init /\ [][Next]_vars /\ WF_vars(Next)

\* Mutant: the collector outlives the call, as a field of the procedure
\* would.
ExecuteAgainKeepingErrs ==
    /\ pc = "done"
    /\ pc' = "new"
    /\ cur' = 0
    /\ change' \in ChangesAt(1, 0 .. MaxInsts)
    /\ insts' = <<>>
    /\ queue' = NewQueue(0)
    /\ immq' = <<>>
    /\ input' = NoInput
    /\ started' = <<>>
    /\ posts' = <<>>
    /\ polls' = <<>>
    /\ result' = <<>>
    /\ recorded' = <<>>
    /\ calls' = {}
    /\ endRuns' = [c \in 1 .. nChanges |-> 0]
    /\ outcome' = [c \in 1 .. nChanges |-> <<>>]
    /\ cbArgs' = <<>>
    /\ UNCHANGED <<world, errs>>

\* After its callback execute is called again, on a procedure of as many
\* Changes: every local of uaExecute is made anew, var errs = [] among
\* them, and the histories start over with the call.
ExecuteAgain ==
    /\ pc = "done"
    /\ pc' = "new"
    /\ cur' = 0
    /\ change' \in ChangesAt(1, 0 .. MaxInsts)
    /\ insts' = <<>>
    /\ queue' = NewQueue(0)
    /\ immq' = <<>>
    /\ errs' = <<>>
    /\ input' = NoInput
    /\ started' = <<>>
    /\ posts' = <<>>
    /\ polls' = <<>>
    /\ result' = <<>>
    /\ recorded' = <<>>
    /\ calls' = {}
    /\ endRuns' = [c \in 1 .. nChanges |-> 0]
    /\ outcome' = [c \in 1 .. nChanges |-> <<>>]
    /\ cbArgs' = <<>>
    /\ UNCHANGED world

NextAgain ==
    \/ ExecuteAgain
    \/ Next

SpecAgain == Init /\ [][NextAgain]_vars

\* The caller may call summarize before it calls execute.
NextSummarize ==
    \/ Summarize
    \/ Next

SpecSummarize == Init /\ [][NextSummarize]_vars

\* ------------------------------------------- lib/errors on its own

\* Messages and causes the constructors are called with.
Messages == {<<"boom">>, <<"bad option">>, <<"no", "agents">>}
PlainCause == [message |-> <<"ENOENT">>]

\* Causes of SDCClientError: the eng.git body, one without code (SAPI),
\* one with field errors, and one without body.
SapiCause ==
    [body |-> <<[code |-> <<>>, message |-> <<"no such service">>,
                 errors |-> <<>>]>>]
FieldCause ==
    [body |-> <<[code |-> <<"InvalidParameters">>,
                 message |-> <<"invalid parameters">>,
                 errors |-> <<[field |-> "image_uuid", code |-> "Missing",
                               message |-> <<>>],
                              [field |-> "server", code |-> "Invalid",
                               message |-> <<"unknown server">>]>>]>>]
\* A body with a code and no message.
NoMessageCause ==
    [body |-> <<[code |-> <<"InternalError">>, message |-> <<>>,
                 errors |-> <<>>]>>]
ClientCauses == {GoodCause, SapiCause, FieldCause, BareCause, NoMessageCause}

\* The errors a MultiError is made of.
ErrPool ==
    {UpdateError(m) : m \in Messages}
    \cup {UsageError(<<m>>) : m \in Messages}
    \cup {InternalError([message |-> m, cause |-> NoCause]) : m \in Messages}
    \cup {SDCClientError(c, "cnapi") : c \in {GoodCause, FieldCause}}

RECURSIVE SeqsUpTo(_, _)
SeqsUpTo(S, n) ==
    IF n = 0 THEN {<<>>}
    ELSE LET shorter == SeqsUpTo(S, n - 1)
         IN  shorter \cup {Append(s, e) : s \in shorter, e \in S}

\* Everything but made, which the constructors leave alone.
execVars ==
    <<nChanges, change, hung, down, pc, cur, insts, queue, immq, errs,
      input, started, posts, polls, result, recorded, calls, endRuns,
      outcome, cbArgs>>

\* made after a constructor call: the class, the arguments of the call and
\* the error it returned, or that it threw.
Made(class, args, e) ==
    [kind |-> "made", class |-> class, args |-> args, err |-> e]
Threw(class, args) == [kind |-> "threw", class |-> class, args |-> args]

MakeInternalError ==
    /\ \E m \in Messages, c \in {NoCause, <<PlainCause>>} :
          made' = Made("InternalError", <<[message |-> m, cause |-> c]>>,
                       InternalError([message |-> m, cause |-> c]))
    /\ UNCHANGED <<execVars, summary, sapi, run>>

MakeUsageError ==
    /\ \E args \in {<<m>> : m \in Messages}
                   \cup {<<PlainCause, m>> : m \in Messages} :
          made' = Made("UsageError", args, UsageError(args))
    /\ UNCHANGED <<execVars, summary, sapi, run>>

MakeUpdateError ==
    /\ \/ \E m \in Messages : made' = Made("UpdateError", <<m>>, UpdateError(m))
       \/ \E m \in Messages :
             made' = Made("UpdateError", <<PlainCause, m>>,
                          UpdateErrorCaused(PlainCause, m))
    /\ UNCHANGED <<execVars, summary, sapi, run>>

MakeSDCClientError ==
    /\ \E c \in ClientCauses, client \in {"cnapi", "sapi"} :
          made' = IF WellFormedCause(c)
                  THEN Made("SDCClientError", <<c, client>>,
                            SDCClientError(c, client))
                  ELSE Threw("SDCClientError", <<c, client>>)
    /\ UNCHANGED <<execVars, summary, sapi, run>>

\* The argument lists a wrapped callback is called with: none at all, or
\* an error or null first (<<c>> or <<>>) and up to two results after it.
CallbackArgs ==
    {<<>>}
    \cup { <<first>> \o results :
             first \in {<<>>} \cup { <<c>> : c \in ClientCauses },
             results \in {<<>>, <<"task">>, <<"task", "res">>} }

\* Mutant: only the error is handed on.
sdcClientCbErrorOnly(clientName, arguments) ==
    IF arguments # <<>> /\ arguments[1] # <<>>
    THEN IF WellFormedCause(arguments[1][1])
         THEN [threw |-> FALSE,
               cb |-> << <<<<SDCClientError(arguments[1][1], clientName)>>>> >>]
         ELSE [threw |-> TRUE, cb |-> <<>>]
    ELSE [threw |-> FALSE, cb |-> <<arguments>>]

\* sdcClientCb, the function sdcClientErrWrap(cb, clientName) returns,
\* called with arguments: whether it threw, and the argument lists of the
\* calls of cb it made.
sdcClientCb(clientName, arguments) ==
    IF arguments # <<>> /\ arguments[1] # <<>>
    THEN IF WellFormedCause(arguments[1][1])
         THEN [threw |-> FALSE,
               cb |-> << <<<<SDCClientError(arguments[1][1], clientName)>>>>
                         \o Tail(arguments) >>]
         ELSE [threw |-> TRUE, cb |-> <<>>]
    ELSE [threw |-> FALSE, cb |-> <<arguments>>]

CallWrapped ==
    /\ \E clientName \in {"cnapi", "sapi"}, arguments \in CallbackArgs :
          LET r == sdcClientCb(clientName, arguments)
          IN  made' = [kind |-> "wrapped", class |-> "sdcClientCb",
                       args |-> <<clientName, arguments>>,
                       threw |-> r.threw, cb |-> r.cb]
    /\ UNCHANGED <<execVars, summary, sapi, run>>

MakeMultiError ==
    /\ \E es \in SeqsUpTo(ErrPool, MaxErrs) :
          made' = Made("MultiError", es, MultiError(es))
    /\ UNCHANGED <<execVars, summary, sapi, run>>

NextErrors ==
    \/ MakeInternalError
    \/ MakeUsageError
    \/ MakeUpdateError
    \/ MakeSDCClientError
    \/ MakeMultiError
    \/ CallWrapped

\* No plan is executed: the constructors are called in any order.
InitErrors ==
    /\ nChanges = 1
    /\ change = [service |-> CnAgent, image |-> [uuid |-> 1], n |-> 0]
    /\ hung = {}
    /\ down = {}
    /\ InitRest
    /\ sapi = [flag \in SapiFlags |-> Undefined]

SpecErrors == InitErrors /\ [][NextErrors]_vars

\* --------------------------------------------------------- do_nfs_volumes

\* Everything the command leaves alone.
besidesNfs == <<execVars, made, summary>>

\* new Error(message)
PlainError(message) == [name |-> "Error", message |-> message]

\* list.join(sep), list a sequence of token sequences.
RECURSIVE JoinWith(_, _)
JoinWith(list, sep) ==
    IF list = <<>> THEN <<>>
    ELSE IF Len(list) = 1 THEN list[1]
    ELSE list[1] \o <<sep>> \o JoinWith(Tail(list), sep)

JoinComma(list) == JoinWith(list, ", ")

\* validateArgs: <<>> for undefined, else <<the UsageError>>.
validateArgs(args) ==
    IF Len(args) < 1 THEN <<UsageError(<<<<"one argument is required">>>>)>>
    ELSE IF Len(args) > 1
    THEN <<UsageError(<<<<"too many args: ">>
                        \o JoinWith([k \in DOMAIN args |-> <<args[k]>>],
                                    ",")>>)>>
    ELSE IF args[1] \notin VALID_FEATURE_NAMES
    THEN <<UsageError(<<<<"invalid feature name: ", args[1]>>>>)>>
    ELSE <<>>

\* The command lines: the arguments, --force and --disable (--help, which
\* hands over to do_help, is not given).
ArgLists ==
    {<<>>, <<"bogus">>, <<"docker", "cloudapi">>}
    \cup { <<f>> : f \in VALID_FEATURE_NAMES }

\* What is remembered of the run before: its command line, if cb was
\* called without error.
Remembered(r) ==
    IF r.cb = <<<<>>>>
    THEN <<[args |-> r.args, force |-> r.force, disable |-> r.disable]>>
    ELSE <<>>

\* vasync.pipeline: next(err) of a step. An error ends the pipeline and
\* is handed to cb, else the next function runs.
PipelineNext(r, err, nextStep) ==
    IF err # <<>>
    THEN [r EXCEPT !.step = "ended", !.failed = r.step, !.cb = <<err>>]
    ELSE [r EXCEPT !.step = nextStep]

\* do_nfs_volumes up to vasync.pipeline, in a new process: self.sdcadm.sdc
\* is the SDC application as SAPI has it.
do_nfs_volumes ==
    /\ run.step \in {"idle", "ended", "crashed"}
    /\ \E args \in ArgLists, force \in BOOLEAN, disable \in BOOLEAN :
          LET argsErr == validateArgs(args)
              r == [NoRun EXCEPT !.args = args, !.force = force,
                                 !.disable = disable, !.metadata = sapi,
                                 !.prev = Remembered(run)]
          IN  run' = IF argsErr # <<>>
                     THEN [r EXCEPT !.step = "ended", !.cb = <<argsErr>>]
                     ELSE [r EXCEPT !.step = "checkFeatureDeps"]
    /\ UNCHANGED <<besidesNfs, sapi>>

featureName == run.args[1]
sapiFlagName == FEATURE_NAME_TO_SAPI_FLAG(featureName)

\* sdcApp.metadata[depSapiFlagName] !== 'true'
checkSapiFlagDep(featureDepName) ==
    run.metadata[FEATURE_NAME_TO_SAPI_FLAG(featureDepName)] # JsString("true")

checkFeatureDeps ==
    /\ run.step = "checkFeatureDeps"
    /\ LET featureDeps == FeatureDeps(featureName)
           missingFeatureDeps == SelectSeq(featureDeps, checkSapiFlagDep)
           err == IF Len(missingFeatureDeps) > 0
                  THEN <<PlainError(
                           <<"Missing feature deps: ">>
                           \o JoinComma([k \in DOMAIN missingFeatureDeps |->
                                           <<missingFeatureDeps[k]>>]))>>
                  ELSE <<>>
       IN  run' = IF run.force \/ run.disable \/ featureDeps = <<>>
                  THEN PipelineNext(run, <<>>, "getDependenciesImageVersions")
                  ELSE PipelineNext(run, err, "getDependenciesImageVersions")
    /\ UNCHANGED <<besidesNfs, sapi>>

\* getDependenciesImageVersions up to getImagesVersions, which calls
\* sdcadm.getImgsForSvcVms for every dependency.
getDependenciesImageVersions ==
    /\ run.step = "getDependenciesImageVersions"
    /\ run' = IF run.force \/ run.disable
              THEN PipelineNext(run, <<>>, "checkPlatformDep")
              ELSE IF ImgDepsNames(featureName) = <<>>
              THEN PipelineNext(
                     [run EXCEPT !.progress =
                         Append(@, <<"Feature ", featureName,
                                     " has no image dependencies">>)],
                     <<>>, "checkPlatformDep")
              ELSE [run EXCEPT
                     !.step = "onGotImagesVersions",
                     !.calls = @ \cup {"getImgsForSvcVms"},
                     !.progress =
                        Append(@, <<"Getting versions for image dependencies: ">>
                                  \o JoinComma([k \in DOMAIN
                                         ImgDepsNames(featureName) |->
                                         <<ImgDepsNames(featureName)[k]>>]))]
    /\ UNCHANGED <<besidesNfs, sapi>>

\* The versions the VMs of a service may run.
VmVersions ==
    { <<"tritonnfs", "-20170301T000000Z-gabc">>,
      <<"master", "-20170301T000000Z-gabc">> }

\* What getImagesVersions may call back with: an error, or one entry per
\* VM; every service has one VM, its uuid named after the service, and at
\* most one of them runs another image than the tritonnfs one.
SapiErr == PlainError(<<"connect ECONNREFUSED">>)
ImagesVersions(names) ==
    { [k \in DOMAIN names |->
         [serviceName |-> names[k], version |-> v[k], vmUuid |-> names[k]]] :
      v \in { w \in [DOMAIN names -> VmVersions] :
                Cardinality({k \in DOMAIN names : ~ImageDepOk(w[k])}) <= 1 } }

\* filterOutdated, the callback handed to imagesVersions.filter: it
\* reports on the VM and has no return statement, so filter gets
\* undefined, which it takes as false.
filterOutdated(versionInfo) == FALSE

filterOutdatedProgress(versionInfo) ==
    <<"VM ", versionInfo.vmUuid, " for service ", versionInfo.serviceName,
      " at version ">> \o versionInfo.version
    \o (IF ImageDepOk(versionInfo.version)
        THEN <<" matches dependencies requirements">>
        ELSE <<" does not match dependencies requirements">>)

renderVersionInfo(versionInfo) ==
    <<"VM ", versionInfo.vmUuid, " for service ", versionInfo.serviceName,
      " at version ">> \o versionInfo.version

onGotImagesVersions ==
    /\ run.step = "onGotImagesVersions"
    /\ \E reply \in {[err |-> <<SapiErr>>, imagesVersions |-> <<>>]}
                   \cup {[err |-> <<>>, imagesVersions |-> ivs] :
                         ivs \in ImagesVersions(ImgDepsNames(featureName))} :
          LET outdatedVersions ==
                  SelectSeq(reply.imagesVersions, filterOutdated)
              outdatedVersionsErr ==
                  IF Len(outdatedVersions) > 0
                  THEN <<PlainError(
                           <<"Found outdated core services: ">>
                           \o JoinComma([k \in DOMAIN outdatedVersions |->
                                 renderVersionInfo(outdatedVersions[k])]))>>
                  ELSE <<>>
          IN  run' =
                IF reply.err # <<>>
                THEN PipelineNext(run, reply.err, "checkPlatformDep")
                ELSE PipelineNext(
                       [run EXCEPT !.progress =
                           Append(@, <<"Checking dependencies are up to date">>)
                           \o [k \in DOMAIN reply.imagesVersions |->
                                   filterOutdatedProgress(
                                       reply.imagesVersions[k])]],
                       outdatedVersionsErr, "checkPlatformDep")
    /\ UNCHANGED <<besidesNfs, sapi>>

\* checkPlatformDep looking at --force only.
checkPlatformDepUnlessForced ==
    /\ run.step = "checkPlatformDep"
    /\ run' = IF run.force
              THEN PipelineNext(run, <<>>, "updateDockerNfSharedVolumesFlag")
              ELSE IF PlatformVersionDep(featureName) = <<>>
              THEN PipelineNext(
                     [run EXCEPT !.progress =
                         @ \o <<<<"Checking platform version dependencies">>,
                                <<"Enabling ", featureName,
                                  " has no platform dependency">>>>],
                     <<>>, "updateDockerNfSharedVolumesFlag")
              ELSE [run EXCEPT
                     !.step = "onlistServers",
                     !.calls = @ \cup {"listServers"},
                     !.progress =
                         @ \o <<<<"Checking platform version dependencies">>,
                                <<"Getting servers list">>>>]
    /\ UNCHANGED <<besidesNfs, sapi>>

checkPlatformDep ==
    /\ run.step = "checkPlatformDep"
    /\ run' = IF run.force \/ run.disable
              THEN PipelineNext(run, <<>>, "updateDockerNfSharedVolumesFlag")
              ELSE IF PlatformVersionDep(featureName) = <<>>
              THEN PipelineNext(
                     [run EXCEPT !.progress =
                         @ \o <<<<"Checking platform version dependencies">>,
                                <<"Enabling ", featureName,
                                  " has no platform dependency">>>>],
                     <<>>, "updateDockerNfSharedVolumesFlag")
              ELSE [run EXCEPT
                     !.step = "onlistServers",
                     !.calls = @ \cup {"listServers"},
                     !.progress =
                         @ \o <<<<"Checking platform version dependencies">>,
                                <<"Getting servers list">>>>]
    /\ UNCHANGED <<besidesNfs, sapi>>

\* The boot platforms of the servers cnapi lists.
BootPlatforms ==
    {Chars20150101T000000Z, Chars20160613T123039Z, Chars20170101T000000Z}

renderServerInfo(server) ==
    <<"uuid ", server.uuid, " boot platform version ", server.boot_platform>>

onlistServers ==
    /\ run.step = "onlistServers"
    /\ \E reply \in {[err |-> <<SapiErr>>, servers |-> <<>>]}
                   \cup {[err |-> <<>>, servers |-> s] :
                         s \in SeqsUpTo(BootPlatforms, MaxServers)} :
          LET dep == PlatformVersionDep(featureName)[1]
              servers == [k \in DOMAIN reply.servers |->
                            [uuid |-> k, boot_platform |-> reply.servers[k]]]
              outdatedServers ==
                  SelectSeq(servers,
                            LAMBDA server :
                                StrGreater(dep, server.boot_platform))
          IN  run' =
                IF reply.err # <<>>
                THEN PipelineNext(run, reply.err,
                                  "updateDockerNfSharedVolumesFlag")
                ELSE IF Len(outdatedServers) > 0
                THEN PipelineNext(
                       run,
                       <<PlainError(
                           <<"Found outdated servers: ">>
                           \o JoinWith([k \in DOMAIN outdatedServers |->
                                 renderServerInfo(outdatedServers[k])],
                                 ","))>>,
                       "updateDockerNfSharedVolumesFlag")
                ELSE PipelineNext(
                       [run EXCEPT !.progress =
                           Append(@, <<"All servers match platform version ",
                                       "requirements">>)],
                       <<>>, "updateDockerNfSharedVolumesFlag")
    /\ UNCHANGED <<besidesNfs, sapi>>

desiredSapiFlagValue == IF run.disable THEN JsFalse ELSE JsTrue

\* updateDockerNfSharedVolumesFlag taking any value that is not truthy
\* for false and any truthy one for true.
updateDockerNfSharedVolumesFlagByTruthiness ==
    /\ run.step = "updateDockerNfSharedVolumesFlag"
    /\ run' = IF (run.metadata[sapiFlagName] \in {Undefined, JsFalse})
                 = (desiredSapiFlagValue = JsTrue)
              THEN [run EXCEPT
                     !.didSomething = TRUE,
                     !.step = "onSdcAppUpdated",
                     !.calls = @ \cup {"updateApplication"},
                     !.progress =
                         @ \o <<<<"Checking if ", sapiFlagName, "=",
                                  desiredSapiFlagValue[2], " in SDC app...">>,
                                <<"Setting ", sapiFlagName, " to ",
                                  desiredSapiFlagValue[2], " in SDC app...">>>>]
              ELSE PipelineNext(
                     [run EXCEPT !.progress =
                         @ \o <<<<"Checking if ", sapiFlagName, "=",
                                  desiredSapiFlagValue[2], " in SDC app...">>,
                                <<sapiFlagName, " already set to ",
                                  desiredSapiFlagValue[2],
                                  ", nothing to do">>>>],
                     <<>>, "done")
    /\ UNCHANGED <<besidesNfs, sapi>>

\* updateDockerNfSharedVolumesFlag up to updateSdcFlagInSapi's call of
\* sapiClient.updateApplication.
updateDockerNfSharedVolumesFlag ==
    /\ run.step = "updateDockerNfSharedVolumesFlag"
    /\ run' = IF run.metadata[sapiFlagName] # desiredSapiFlagValue
              THEN [run EXCEPT
                     !.didSomething = TRUE,
                     !.step = "onSdcAppUpdated",
                     !.calls = @ \cup {"updateApplication"},
                     !.progress =
                         @ \o <<<<"Checking if ", sapiFlagName, "=",
                                  desiredSapiFlagValue[2], " in SDC app...">>,
                                <<"Setting ", sapiFlagName, " to ",
                                  desiredSapiFlagValue[2], " in SDC app...">>>>]
              ELSE PipelineNext(
                     [run EXCEPT !.progress =
                         @ \o <<<<"Checking if ", sapiFlagName, "=",
                                  desiredSapiFlagValue[2], " in SDC app...">>,
                                <<sapiFlagName, " already set to ",
                                  desiredSapiFlagValue[2],
                                  ", nothing to do">>>>],
                     <<>>, "done")
    /\ UNCHANGED <<besidesNfs, sapi>>

\* onSdcAppUpdated and _nfsSharedVolumesUpdated. SAPI stores the value and
\* answers with the updated application; or it answers with an
\* application that has another value; or the call fails, and then the
\* client hands over an object with metadata or none: reading
\* updatedSdcAdpp.metadata of none throws.
onSdcAppUpdated ==
    /\ run.step = "onSdcAppUpdated"
    /\ \/ /\ sapi' = [sapi EXCEPT ![sapiFlagName] = desiredSapiFlagValue]
          /\ run' = PipelineNext(
                       [run EXCEPT !.progress =
                           Append(@, <<sapiFlagName, " set to ",
                                       desiredSapiFlagValue[2],
                                       " on SDC app">>)],
                       <<>>, "done")
       \/ LET errMsg == <<"Could not set ", sapiFlagName, " to ",
                          desiredSapiFlagValue[2], " on SDC app">>
          IN  /\ run' = PipelineNext(
                           [run EXCEPT !.progress = Append(@, errMsg)],
                           <<PlainError(errMsg)>>, "done")
              /\ UNCHANGED sapi
       \/ /\ run' = PipelineNext(run, <<SapiErr>>, "done")
          /\ UNCHANGED sapi
       \/ /\ run' = [run EXCEPT !.step = "crashed"]
          /\ UNCHANGED sapi
    /\ UNCHANGED besidesNfs

\* The last function of the pipeline, and cb.
done ==
    /\ run.step = "done"
    /\ run' = [run EXCEPT
                 !.step = "ended",
                 !.cb = <<<<>>>>,
                 !.progress =
                    Append(@,
                      IF run.didSomething
                      THEN <<(IF run.disable THEN "Disabled " ELSE "Enabled "),
                             featureName, " NFS volumes support">>
                      ELSE <<featureName, " NFS volumes support already ",
                             (IF run.disable THEN "disabled" ELSE "enabled")>>)]
    /\ UNCHANGED <<besidesNfs, sapi>>

NextNfs ==
    \/ do_nfs_volumes
    \/ checkFeatureDeps
    \/ getDependenciesImageVersions
    \/ onGotImagesVersions
    \/ checkPlatformDep
    \/ onlistServers
    \/ updateDockerNfSharedVolumesFlag
    \/ onSdcAppUpdated
    \/ done

\* The values SAPI may hold for the docker flag before the first command:
\* none, a boolean, or the string an operator typed; the other flags are
\* not set.
FlagValues == {Undefined, JsTrue, JsFalse, JsString("true")}

\* No procedure is executed: the command is run any number of times.
InitNfs ==
    /\ nChanges = 1
    /\ change = [service |-> CnAgent, image |-> [uuid |-> 1], n |-> 0]
    /\ hung = {}
    /\ down = {}
    /\ InitRest
    /\ \E v \in FlagValues :
          sapi = [flag \in SapiFlags |->
                    IF flag = FEATURE_NAME_TO_SAPI_FLAG("docker")
                    THEN v ELSE Undefined]

SpecNfs == InitNfs /\ [][NextNfs]_vars

\* ----------------------------------------------------------- properties

\* The instances of the current Change whose upAgent call has started and
\* has not called its done callback.
Pending == { i \in DOMAIN started : started[i] > 0 /\ ~result[i].done }

\* C1: at any instant at most CN_CONCUR instances of a Change have an
\* upAgent call that has started and has not yet called done.
C1_AtMostConcurInFlight == Cardinality(Pending) <= CN_CONCUR

\* CN_CONCUR chains are in flight and the queue holds an instance back.
C1_Witness ==
    /\ Cardinality(Pending) = CN_CONCUR
    /\ queue.queued # <<>>
    /\ \A i \in Pending : insts[i].st = "post"

\* The Change whose instances the per-instance histories describe: while
\* the next Change waits for its listing they are still its predecessor's.
HistOf == IF pc = "listing" THEN cur - 1 ELSE cur

\* The end handler of that Change's queue has run.
Ended == HistOf >= 1 /\ endRuns[HistOf] > 0

\* The build date of a version of CnapiVersions is older than the minimum.
BuildOlder(version) ==
    Len(version) >= 2
    /\ StrGreater(MIN_CNAPI_VERSION, version[Len(version) - 1])

\* C2: when the listing reports a cnapi image older than MIN_CNAPI_VERSION
\* the Change fails with an UpdateError and neither an install-agent call
\* nor a poll is made for it, then or later.
C2_TooOldNoDispatch ==
    /\ input.kind = "listInsts" /\ input.err = <<>>
       /\ BuildOlder(input.version)
       => /\ pc = "done"
          /\ outcome[cur] # <<>> /\ outcome[cur][1] # <<>>
          /\ outcome[cur][1][1].code = "Update"
          /\ calls = {"list"}
          /\ endRuns[cur] = 0
    /\ \A c \in DOMAIN outcome :
          outcome[c] = <<<<TooOldError>>>> =>
             c = cur /\ pc = "done" /\ calls = {"list"}

\* The second Change of a plan finds cnapi too old after the first Change
\* has polled and ended.
C2_Witness ==
    /\ input.kind = "listInsts" /\ input.err = <<>>
    /\ BuildOlder(input.version)
    /\ cur = 2 /\ endRuns[1] = 1 /\ \E i \in DOMAIN polls : polls[i] > 0
    /\ cbArgs = <<<<TooOldError>>>>

Failed == { i \in DOMAIN result : result[i].err # <<>> }

\* C4: when all instances of a Change have finished, every instance that
\* failed, a failed install-agent call included, has its error in the
\* collector, and the Change fails with a MultiError of exactly these
\* errors; a Change with a failed instance never reports success.
C4_EveryFailureRecorded ==
    Ended =>
       /\ Failed = Range(recorded)
       /\ Len(errs) = Cardinality(Failed)
       /\ Failed # {} => /\ outcome[HistOf][1] # <<>>
                         /\ outcome[HistOf][1][1].code = "MultiError"

RECURSIVE Concat(_)
Concat(seqs) == IF seqs = <<>> THEN <<>> ELSE Head(seqs) \o Concat(Tail(seqs))

\* The error instance i of the Change had recorded.
RecordedError(i) == result[i].err[1]

\* C5: the MultiError of a Change lists its children in the order in
\* which the failures were pushed to the collector, and its cause is the
\* first of them.
C5_ChildrenInPushOrder ==
    Ended /\ recorded # <<>> =>
       /\ outcome[HistOf][1] # <<>>
       /\ LET m == outcome[HistOf][1][1]
          IN  /\ m.code = "MultiError"
              /\ m.cause = <<RecordedError(recorded[1])>>
              /\ m.message =
                    <<"multiple (", ToString(Len(recorded)), ") errors">>
                    \o Concat([k \in 1 .. Len(recorded) |->
                                 <<"\n", "    error (",
                                   RecordedError(recorded[k]).code, "): ">>
                                 \o RecordedError(recorded[k]).message])

\* Instance 2 failed before instance 1 did: the MultiError lists instance
\* 2's error first.
C5_Witness ==
    /\ Ended /\ recorded = <<2, 1>>
    /\ outcome[HistOf][1][1].cause = <<RecordedError(2)>>
    /\ RecordedError(2) # RecordedError(1)

\* C6: a Change that has finished with nothing recorded hands no error
\* on, and no MultiError without children is handed to nextSvc or to the
\* callback of execute.
C6_NoEmptyMultiError ==
    /\ Ended /\ errs = <<>> => outcome[HistOf] = <<<<>>>>
    /\ \A c \in DOMAIN outcome :
          outcome[c] # <<>> /\ outcome[c][1] # <<>>
          /\ outcome[c][1][1].code = "MultiError"
          => /\ outcome[c][1][1].cause # <<>>
             /\ outcome[c][1][1].message[2] # "0"
    /\ \A k \in DOMAIN cbArgs :
          cbArgs[k] # <<>> /\ cbArgs[k][1].code = "MultiError"
          => cbArgs[k][1].cause # <<>> /\ cbArgs[k][1].message[2] # "0"

\* A plan of two Changes, the second without instances, both without a
\* recorded failure: the callback gets no error.
C6_Witness ==
    /\ pc = "done" /\ cur = 2 /\ endRuns = <<1, 1>>
    /\ change.n = 0 /\ calls = {"list"}
    /\ errs = <<>> /\ outcome = << <<<<>>>>, <<<<>>>> >>
    /\ cbArgs = <<<<>>>>

\* C7: execute's callback is never called twice, and once execute has
\* come to rest, on whatever path, it has been called exactly once.
C7_CallbackExactlyOnce ==
    /\ Len(cbArgs) <= 1
    /\ pc \in {"done", "crashed"} => Len(cbArgs) = 1

\* The Changes that handed an error to nextSvc.
FailedChanges ==
    { c \in DOMAIN outcome : outcome[c] # <<>> /\ outcome[c][1] # <<>> }

\* C8: a Change makes its first remote call only after the queue of every
\* Change before it has emitted 'end', and when the next Change is entered
\* every chain of the Change before it has called done and neither the
\* queue nor the event loop holds a worker of it.
C8_ChangesSequential ==
    /\ calls # {} =>
          /\ cur >= 1 /\ "list" \in calls
          /\ \A b \in 1 .. cur - 1 :
                endRuns[b] = 1 /\ outcome[b] = <<<<>>>>
    /\ \A c \in DOMAIN outcome :
          c > cur => endRuns[c] = 0 /\ outcome[c] = <<>>
    /\ pc = "listing" /\ cur > 1 =>
          /\ \A i \in DOMAIN insts :
                insts[i].st = "done" /\ result[i].done
          /\ queue.npending = 0 /\ queue.queued = <<>>
          /\ \A k \in DOMAIN immq : immq[k][1] # "worker"

\* The second Change's listing is outstanding right after the two chains
\* of the first Change, both polled, have come to their end.
C8_Witness ==
    /\ cur = 2 /\ pc = "listing" /\ endRuns[1] = 1
    /\ DOMAIN result = {1, 2}
    /\ \A i \in DOMAIN result : polls[i] > 0 /\ result[i].done

\* C9: when execute calls back, it hands over the error of the first
\* Change of the plan that handed one to nextSvc, and no error exactly
\* when every Change of the plan ended without one.
C9_FirstChangeError ==
    pc = "done" =>
       /\ Len(cbArgs) = 1
       /\ IF FailedChanges = {}
          THEN /\ cbArgs[1] = <<>>
               /\ \A c \in 1 .. nChanges : outcome[c] = <<<<>>>>
          ELSE LET first == CHOOSE c \in FailedChanges :
                               \A d \in FailedChanges : c <= d
               IN  cbArgs[1] # <<>> /\ cbArgs[1] = outcome[first][1]

\* The first Change of a plan succeeded and the second failed: the
\* callback has the second Change's error.
C9_Witness ==
    /\ pc = "done" /\ nChanges = 2
    /\ outcome[1] = <<<<>>>>
    /\ FailedChanges = {2}
    /\ cbArgs = <<outcome[2][1]>>

\* C10: a getTask reply with status 'failure' ends the chain in that very
\* callback with an UpdateError: 'Task <id> failed', followed by ' with
\* error: ' and the remote text when the first history event has an
\* error; no timer is set and no query is left outstanding.
C10_TaskFailureEndsPoll ==
    input.kind = "getTask" /\ input.err = <<>> /\ input.status = "failure"
    => LET i == input.server
           id == ToString(TaskId(HistOf, i))
       IN  /\ insts[i].st = "done" /\ result[i].done
           /\ polls[i] = insts[i].counter
           /\ Len(result[i].err) = 1
           /\ result[i].err[1].code = "Update"
           /\ result[i].err[1].exitStatus = 2
           /\ result[i].err[1].message =
                 IF input.error # <<>>
                 THEN <<"Task ", id, " failed", " with error: ",
                        input.error[1]>>
                 ELSE <<"Task ", id, " failed">>
           /\ errs # <<>> /\ errs[Len(errs)] = result[i].err[1]

\* The second getTask call of an instance reports a failure that carries
\* the remote text.
C10_Witness ==
    /\ input.kind = "getTask" /\ input.err = <<>>
    /\ input.status = "failure" /\ input.error = <<"agent install failed">>
    /\ polls[input.server] = 2
    /\ result[input.server].err[1].message[5] = "agent install failed"

\* The latest callback was a poll reply that is neither an error nor
\* terminal: a task neither failed nor complete, a cn-agent entry with
\* another image than the target.
NotYetReply ==
    /\ input.kind \in {"getTask", "getServer"} /\ input.err = <<>>
    /\ input.kind = "getTask" => input.status \notin {"failure", "complete"}
    /\ input.kind = "getServer" => input.image_uuid # change.image.uuid

\* The error is one of the two pollers' timeout errors.
IsTimeout(e) ==
    /\ e.code = "Update"
    /\ e.message[1] \in {"Timeout(5m) waiting for task ",
                         "Timeout(5m) waiting for cn-agent update "}

\* C11: a poll never issues a 61st query; a reply that is not terminal
\* sets the timer while fewer than 60 queries have been made and, at the
\* 60th, ends the poll with an UpdateError that mentions the 5 minute
\* timeout; a timeout is reported after exactly 60 queries.
C11_SixtyQueriesThenTimeout ==
    /\ \A i \in DOMAIN polls : polls[i] <= 60
    /\ \A i \in DOMAIN result :
          result[i].err # <<>> /\ IsTimeout(result[i].err[1])
          => polls[i] = 60 /\ insts[i].st = "done"
    /\ NotYetReply /\ HistOf = cur =>
          LET i == input.server
          IN  IF polls[i] < 60
              THEN insts[i].st = "timer" /\ ~result[i].done
              ELSE /\ result[i].done /\ insts[i].st = "done"
                   /\ Len(result[i].err) = 1
                   /\ IsTimeout(result[i].err[1])
                   /\ errs # <<>> /\ errs[Len(errs)] = result[i].err[1]

\* The 60th getServer query of a server still finds the old image: the
\* instance ends with the timeout error.
C11_Witness ==
    /\ NotYetReply /\ input.kind = "getServer"
    /\ polls[input.server] = 60 /\ insts[input.server].counter = 60
    /\ result[input.server].done
    /\ IsTimeout(result[input.server].err[1])

\* The latest callback was a poll query's error.
PollErrorReply ==
    input.kind \in {"getTask", "getServer"} /\ input.err # <<>>

\* The chain of instance i has ended, without another query, with an
\* SDCClientError that wraps cause and is the last error pushed to errs.
EndedWithClientError(i, cause) ==
    /\ result[i].done /\ insts[i].st = "done"
    /\ polls[i] = insts[i].counter
    /\ Len(result[i].err) = 1
    /\ result[i].err[1].code = "SDCClient"
    /\ result[i].err[1].exitStatus = 1
    /\ result[i].err[1].cause = <<cause>>
    /\ result[i].err[1].message[1] = "cnapi"
    /\ errs # <<>> /\ errs[Len(errs)] = result[i].err[1]
    /\ recorded # <<>> /\ recorded[Len(recorded)] = i

ResolvedBy(i, reply, service, image) ==
    /\ reply.kind \in {"getTask", "getServer"}
    /\ reply.server = i /\ reply.err = <<>>
    /\ IF service = CnAgent
       THEN reply.kind = "getServer" /\ reply.image_uuid = image.uuid
       ELSE reply.kind = "getTask" /\ reply.status = "complete"

\* C13: after a successful install-agent call a cn-agent instance is
\* polled with getServer on its server and any other instance with getTask
\* on the task id the call returned; an instance becomes successful only
\* in the callback of the reply that resolves its poll, after at least
\* one query.
C13_PollByService ==
    /\ [](/\ \A i \in DOMAIN insts :
              insts[i].st \in {"poll", "timer"} /\ pc = "fanout" =>
                 /\ posts[i] = 1 /\ polls[i] >= 1
                 /\ insts[i].query =
                       IF change.service = "cn-agent"
                       THEN <<"getServer", i>>
                       ELSE <<"getTask", TaskId(cur, i)>>
          /\ input.kind = "post" /\ input.err = <<>> =>
                /\ insts[input.server].st = "poll"
                /\ ~result[input.server].done
                /\ change.service # "cn-agent" =>
                      insts[input.server].query = <<"getTask", input.id>>
          /\ \A i \in DOMAIN result :
                result[i].done /\ result[i].err = <<>> =>
                   posts[i] = 1 /\ polls[i] >= 1)
    /\ [][\A i \in DOMAIN result \cap DOMAIN result' :
             ~result[i].done /\ result'[i].done /\ result'[i].err = <<>>
             => ResolvedBy(i, input', change.service, change.image)]_vars

\* A cn-agent instance has succeeded on its second getServer query, which
\* found the target image.
C13_Witness ==
    /\ input.kind = "getServer" /\ input.err = <<>>
    /\ result[input.server].done /\ result[input.server].err = <<>>
    /\ polls[input.server] = 2
    /\ insts[input.server].query = <<"getServer", input.server>>

\* The version is older than 1.4.0.
Older140(v) == v[1] < 1 \/ (v[1] = 1 /\ v[2] < 4)

\* The latest callback was upAgent on an instance with an image whose
\* cn-agent instance reports a version.
VersionedWorker ==
    /\ input.kind = "upAgent" /\ input.image = "resolved"
    /\ input.agent # <<>> /\ input.agent[1] # <<>>

\* The error is upAgent's for a cn-agent version below the minimum on
\* server i.
IsOldVersionError(e, i) ==
    /\ e.code = "Update"
    /\ e.message[1] = "Invalid cn-agent version in server "
    /\ e.message[2] = ServerName(i)

\* C14: upAgent on an instance whose cn-agent reports a version older than
\* 1.4.0 records an UpdateError naming the server and makes no
\* install-agent call; with 1.4.0 or newer it makes the call. A Change of
\* two instances, one with an old version and one updated successfully,
\* ends with a MultiError of exactly one child, the old-version error.
C14_OldAgentVersionRejected ==
    /\ VersionedWorker =>
          LET i == input.server
          IN  IF Older140(input.agent[1][1])
              THEN /\ result[i].done /\ posts[i] = 0
                   /\ Len(result[i].err) = 1
                   /\ IsOldVersionError(result[i].err[1], i)
                   /\ errs # <<>> /\ errs[Len(errs)] = result[i].err[1]
              ELSE /\ insts[i].st = "post" /\ posts[i] = 1
                   /\ ~result[i].done /\ i \notin Range(recorded)
    /\ \A i \in DOMAIN result :
          result[i].err # <<>> /\ IsOldVersionError(result[i].err[1], i)
          => posts[i] = 0 /\ polls[i] = 0
    /\ \A i, j \in DOMAIN result :
          /\ Ended /\ DOMAIN result = {i, j} /\ i # j
          /\ result[i].err # <<>> /\ IsOldVersionError(result[i].err[1], i)
          /\ result[j].err = <<>>
          => /\ outcome[HistOf][1] # <<>>
             /\ outcome[HistOf][1][1].code = "MultiError"
             /\ outcome[HistOf][1][1].cause = <<result[i].err[1]>>
             /\ outcome[HistOf][1][1].message =
                   <<"multiple (", "1", ") errors", "\n", "    error (",
                     "Update", "): ">> \o result[i].err[1].message

\* Server 2 has cn-agent 1.3.9 and server 1 was updated: the Change ends
\* with a MultiError whose one child names server 2.
C14_Witness ==
    /\ Ended /\ DOMAIN result = {1, 2}
    /\ result[1].done /\ result[1].err = <<>> /\ polls[1] > 0
    /\ result[2].err # <<>> /\ IsOldVersionError(result[2].err[1], 2)
    /\ "3" \in Range(result[2].err[1].message)
    /\ outcome[HistOf][1][1].message[2] = "1"

\* The latest callback was upAgent on an instance without image, without
\* cn-agent instance on its server, or with one that reports no version.
UnprovisionedWorker ==
    /\ input.kind = "upAgent"
    /\ \/ input.image = "none"
       \/ input.agent = <<>>
       \/ input.agent[1] = <<>>

\* C15: upAgent on an instance without image, or whose cn-agent instance
\* is missing or has no version, records exactly one UpdateError for it,
\* makes no install-agent call, and the process and the fan-out go on.
C15_MissingDataRecorded ==
    UnprovisionedWorker =>
       LET i == input.server
       IN  /\ pc # "crashed"
           /\ result[i].done /\ posts[i] = 0
           /\ Len(result[i].err) = 1
           /\ result[i].err[1].code = "Update"
           /\ ServerName(i) \in Range(result[i].err[1].message)
           /\ errs # <<>> /\ errs[Len(errs)] = result[i].err[1]
           /\ Cardinality({k \in DOMAIN recorded : recorded[k] = i}) = 1

\* C16: the upAgent worker of an instance is invoked at most once and
\* makes at most one install-agent call; once the instance's chain has
\* ended, with whatever error, no worker, install-agent call or query is
\* started for it again.
C16_AtMostOncePerInstance ==
    /\ [](\A i \in DOMAIN started :
             /\ started[i] <= 1 /\ posts[i] <= started[i]
             /\ polls[i] > 0 => posts[i] = 1
             /\ result[i].done =>
                   /\ insts[i].st = "done"
                   /\ i \notin Range(queue.queued)
                   /\ Worker(i) \notin Range(immq))
    /\ [][pc = "fanout" =>
             \A i \in DOMAIN result :
                result[i].done =>
                   /\ started'[i] = started[i] /\ posts'[i] = posts[i]
                   /\ polls'[i] = polls[i] /\ result'[i] = result[i]]_vars

\* A Change has ended in which server 1 timed out and the install-agent
\* call of server 2 failed, each after one worker and one call.
C16_Witness ==
    /\ Ended /\ DOMAIN result = {1, 2}
    /\ result[1].err # <<>> /\ IsTimeout(result[1].err[1])
    /\ result[2].err # <<>> /\ result[2].err[1].code = "SDCClient"
    /\ polls[2] = 0
    /\ started = <<1, 1>> /\ posts = <<1, 1>>

\* C17: the end handler of a Change's queue never runs twice; when it has
\* run, the queue was closed and every pushed instance's worker had called
\* done; and it is never missed: while the fan-out is on and the handler
\* has not run, it is registered and either some worker has not called
\* done or, for a Change without instances, the close tick is still to
\* come.
C17_EndHandlerOnce ==
    /\ \A c \in DOMAIN endRuns : endRuns[c] <= 1
    /\ Ended =>
          /\ endRuns[HistOf] = 1 /\ outcome[HistOf] # <<>>
          /\ queue.closed /\ queue.ended /\ queue.ends = 1
          /\ queue.npending = 0 /\ queue.queued = <<>>
          /\ \A i \in DOMAIN result : started[i] = 1 /\ result[i].done
    /\ pc = "fanout" =>
          /\ endRuns[cur] = 0 /\ outcome[cur] = <<>>
          /\ queue.listening /\ queue.closed /\ queue.ends = 0
          /\ IF DOMAIN result = {}
             THEN immq = <<CloseTick>>
             ELSE \E i \in DOMAIN result : ~result[i].done

\* The handler has run once for a Change whose two workers both ended in
\* upAgent itself, without any remote call.
C17_Witness ==
    /\ Ended /\ endRuns[HistOf] = 1
    /\ DOMAIN result = {1, 2}
    /\ posts = <<0, 0>> /\ calls = {"list"}
    /\ recorded = <<1, 2>>

\* C18: when every remote call calls back and every timer fires, execute
\* eventually calls its callback.
C18_EventuallyCallsBack == <>(Len(cbArgs) = 1)

\* C19: in a plan of two Changes, once Change 1 has ended without error
\* Change 2 is run: its listing is made, and on a recent cnapi its
\* fan-out; execute calls back with what Change 2 hands on, which holds
\* errors of Change 2's instances only.
C19_SecondChangeDecides ==
    nChanges = 2 /\ outcome[1] = <<<<>>>> =>
       /\ cur = 2 /\ "list" \in calls /\ pc # "new"
       /\ pc = "listing" => outcome[2] = <<>> /\ cbArgs = <<>>
       /\ input.kind = "listInsts" /\ input.err = <<>>
          /\ ~BuildOlder(input.version)
          => pc = "fanout" /\ DOMAIN result = 1 .. change.n
       /\ pc = "done" =>
             /\ outcome[2] # <<>> /\ cbArgs = <<outcome[2][1]>>
             /\ Ended => /\ Len(errs) = Len(recorded)
                         /\ outcome[2][1] = <<>> <=> recorded = <<>>

\* After a first Change that ended without error the second Change ran
\* its fan-out, an instance failed, and the callback has Change 2's
\* MultiError.
C19_Witness ==
    /\ nChanges = 2 /\ outcome[1] = <<<<>>>> /\ endRuns = <<1, 1>>
    /\ pc = "done" /\ recorded # <<>>
    /\ cbArgs = <<outcome[2][1]>>
    /\ cbArgs[1][1].code = "MultiError"
    /\ \E i \in DOMAIN result : result[i].err = <<>> /\ polls[i] > 0

\* The code the error classes are specified to carry.
NamedCode(class) ==
    CASE class = "InternalError" -> "Internal"
      [] class = "UsageError" -> "Usage"
      [] class = "UpdateError" -> "Update"
      [] class = "SDCClientError" -> "SDCClient"
      [] class = "MultiError" -> "MultiError"

\* C20: every error a constructor of lib/errors makes carries the code
\* named for its class: Internal, Usage, Update, SDCClient, MultiError.
C20_CodesAsNamed ==
    made.kind = "made" => made.err.code = NamedCode(made.class)

\* The exit status each error class is specified to carry.
FixedExitStatus(class) ==
    CASE class = "InternalError" -> 1
      [] class = "UsageError" -> 2
      [] class = "UpdateError" -> 2
      [] class = "SDCClientError" -> 1
      [] class = "MultiError" -> 1

\* C21: whatever message and cause a constructor of lib/errors is called
\* with, the error it makes has the exit status of its class:
\* InternalError 1, UsageError 2, UpdateError 2, SDCClientError 1 and
\* MultiError 1, the last even when every child has exit status 2.
C21_FixedExitStatus ==
    made.kind = "made" => made.err.exitStatus = FixedExitStatus(made.class)

\* A MultiError was made of two errors of exit status 2.
C21_Witness ==
    /\ made.kind = "made"
    /\ made.class = "MultiError"
    /\ Len(made.args) = 2
    /\ \A k \in 1..2 : made.args[k].exitStatus = 2
    /\ made.err.exitStatus = 1

\* The lines of a message: the tokens between its newlines.
SplitLines(msg) ==
    LET newlines == {i \in 1..Len(msg) : msg[i] = "\n"}
        start(j) == CHOOSE p \in newlines \cup {0} :
                        Cardinality({q \in newlines : q <= p}) = j - 1
        end(j) == CHOOSE p \in newlines \cup {Len(msg) + 1} :
                      Cardinality({q \in newlines : q < p}) = j - 1
    IN  [j \in 1..(Cardinality(newlines) + 1) |->
            SubSeq(msg, start(j) + 1, end(j) - 1)]

\* The number of lines the messages of the children before the k-th have.
RECURSIVE LinesBefore(_, _)
LinesBefore(es, k) ==
    IF k = 1 THEN 0
    ELSE LinesBefore(es, k - 1) + Len(SplitLines(es[k - 1].message))

MultiErrorHeader(n) == <<"multiple (", ToString(n), ") errors">>
ChildEntry(e) == <<"    error (", e.code, "): ">> \o e.message
MadeMultiError ==
    made.kind = "made" /\ made.class = "MultiError" /\ Len(made.args) >= 1

\* C22 as stated: a MultiError made of a non-empty list has the first
\* element as cause, and its message is a header line with the count
\* followed by exactly one line per child, in list order, holding that
\* child's code and message.
C22_OneLinePerChild ==
    MadeMultiError =>
        LET es == made.args
            lines == SplitLines(made.err.message)
        IN  /\ made.err.cause = <<es[1]>>
            /\ Len(lines) = Len(es) + 1
            /\ lines[1] = MultiErrorHeader(Len(es))
            /\ \A k \in 1..Len(es) : lines[k + 1] = ChildEntry(es[k])

\* C22 amended: a MultiError made of a non-empty list has the first
\* element as cause, and its message is the header line with the count
\* followed by one entry per child, in list order, each starting on a new
\* line and holding that child's code and whole message; an entry has as
\* many lines as the child's message.
C22_OneEntryPerChild ==
    MadeMultiError =>
        LET es == made.args
            lines == SplitLines(made.err.message)
        IN  /\ made.err.cause = <<es[1]>>
            /\ lines[1] = MultiErrorHeader(Len(es))
            /\ Len(lines) = 1 + LinesBefore(es, Len(es) + 1)
            /\ \A k \in 1..Len(es) :
                  SubSeq(lines, 2 + LinesBefore(es, k),
                         1 + LinesBefore(es, k + 1))
                     = SplitLines(ChildEntry(es[k]))

\* A MultiError was made of two errors of different codes, the second with
\* a message of three lines.
C22_Witness ==
    /\ MadeMultiError
    /\ Len(made.args) = 2
    /\ made.args[1].code = "Update"
    /\ made.args[2].code = "SDCClient"
    /\ Len(SplitLines(made.args[2].message)) = 3
    /\ Len(SplitLines(made.err.message)) = 5

\* The latest constructor call was new SDCClientError(cause, clientName).
CalledSDCClientError == made.kind # "none" /\ made.class = "SDCClientError"
\* cause.body.message is a string.
HasBodyMessage(cause) ==
    cause.body # <<>> /\ cause.body[1].message # <<>>

\* C23: new SDCClientError(cause, clientName) throws, and makes no error,
\* when cause has no string body.message. Otherwise the error's message
\* is "<clientName> client error", then " (<code>)" when the body has a
\* code, then ": " and the body's message, followed by one line
\* "    <field>: <code>" per field error, with ": <message>" appended when
\* the field error has a message.
C23_NeedsBodyMessage ==
    CalledSDCClientError =>
        LET cause == made.args[1]
            clientName == made.args[2]
        IN  IF ~HasBodyMessage(cause) THEN made.kind = "threw"
            ELSE LET b == cause.body[1]
                     lines == SplitLines(made.err.message)
                 IN  /\ made.kind = "made"
                     /\ lines[1] =
                           <<clientName, " client error">>
                           \o (IF b.code = <<>> THEN <<>>
                               ELSE <<" (", b.code[1], ")">>)
                           \o <<": ", b.message[1]>>
                     /\ Len(lines) = 1 + Len(b.errors)
                     /\ \A k \in 1..Len(b.errors) :
                           lines[k + 1] =
                              <<"    ", b.errors[k].field, ": ",
                                b.errors[k].code>>
                              \o (IF b.errors[k].message = <<>> THEN <<>>
                                  ELSE <<": ", b.errors[k].message[1]>>)

\* The constructor was called with a cause whose body has a code and no
\* message, and threw.
C23_Witness ==
    /\ CalledSDCClientError
    /\ made.args[1].body # <<>>
    /\ made.args[1].body[1].message = <<>>
    /\ made.kind = "threw"

\* The state of the procedure, its Changes and everything execute works on.
procedureVars ==
    <<nChanges, change, hung, down, pc, cur, insts, queue, immq, errs,
      input, started, posts, polls, result, recorded, calls, endRuns,
      outcome, cbArgs, made, sapi, run>>

\* C24: a call of summarize changes nothing of the procedure, its Changes
\* or the state execute works on (no remote call is in flight after it
\* that was not before, nothing is queued), and what it returns is fixed
\* by the first Change's service name and image uuid, name and version.
C24_SummarizeIsPure ==
    /\ [](summary # <<>> /\ pc = "new" => summary = SummaryOf(change))
    /\ [][summary' # summary => UNCHANGED procedureVars]_vars

\* summarize was called, and the execute that followed called back.
C24_Witness ==
    /\ summary # <<>>
    /\ pc = "done"
    /\ Len(cbArgs) = 1

\* The latest callback was a getTask reply with a task whose status is
\* neither complete nor failure.
OpenTaskReply ==
    /\ input.kind = "getTask" /\ input.err = <<>>
    /\ input.status \notin {"complete", "failure"}

\* C25: on a getTask reply whose status is neither complete nor failure,
\* whatever it is, and with fewer than 60 queries made, the poll of that
\* instance has neither succeeded nor failed: nothing is recorded for the
\* instance, its worker is not done, and the timer for the next query is
\* set.
C25_OtherStatusNotTerminal ==
    OpenTaskReply /\ polls[input.server] < limit =>
        LET i == input.server
        IN  /\ insts[i].st = "timer"
            /\ ~result[i].done /\ result[i].err = <<>>
            /\ \A k \in DOMAIN recorded : recorded[k] # i
            /\ pc = "fanout"

\* The 59th query of a task was answered with a status the code does not
\* know, and the timer is set.
C25_Witness ==
    /\ OpenTaskReply
    /\ input.status = "unknown"
    /\ polls[input.server] = limit - 1
    /\ insts[input.server].st = "timer"

\* a < b by code unit, a proper prefix being smaller: the strings differ
\* first at place k, where a has ended or has the smaller unit.
LexLess(a, b) ==
    \E k \in 1 .. Len(b) :
        /\ k <= Len(a) + 1
        /\ \A j \in 1 .. (k - 1) : a[j] = b[j]
        /\ k = Len(a) + 1 \/ a[k] < b[k]

\* The latest callback was a listing without error whose first cnapi
\* instance has a version of at least two fields.
ListedCnapi ==
    /\ input.kind = "listInsts" /\ input.err = <<>>
    /\ Len(input.version) >= 2

\* C26: after a listing, the Change fails with the too-old UpdateError
\* exactly when the second-to-last field of the cnapi version is, as a
\* string, strictly smaller than MIN_CNAPI_VERSION; with an equal or a
\* greater field the fan-out of the Change has started.
C26_BuildDateDecides ==
    ListedCnapi =>
        LET build == input.version[Len(input.version) - 1]
        IN  IF LexLess(build, Chars20150407T172714Z)
            THEN /\ pc = "done"
                 /\ outcome[cur] = <<<<TooOldError>>>>
                 /\ cbArgs[Len(cbArgs)] = <<TooOldError>>
                 /\ TooOldError.code = "Update"
            ELSE /\ pc = "fanout"
                 /\ outcome[cur] = <<>>
                 /\ DOMAIN insts = 1 .. change.n
                 /\ queue.listening

\* A four-field version whose second field is an old date and whose
\* second-to-last is a recent one passed the check.
C26_Witness ==
    /\ ListedCnapi
    /\ Len(input.version) = 4
    /\ input.version[2] = Chars20150101T000000Z
    /\ input.version[3] = Chars20160101T000000Z
    /\ pc = "fanout"

\* C27: the collector is empty whenever a Change waits for its listing or
\* starts its fan-out, and when execute is called; during and after a
\* fan-out it holds the failures pushed for that Change's own instances,
\* in push order, and nothing else. So the MultiError of a Change has no
\* child from another Change or from an earlier call.
C27_CollectorPerChange ==
    /\ [](pc \in {"new", "listing"} => errs = <<>>)
    /\ [](pc \in {"fanout", "done", "crashed"} /\ HistOf = cur
           /\ DOMAIN result # {} =>
             /\ Len(errs) = Len(recorded)
             /\ \A k \in DOMAIN errs : errs[k] = RecordedError(recorded[k]))
    /\ [][pc = "listing" /\ pc' = "fanout" => errs' = <<>>]_vars
    /\ [][pc = "done" /\ pc' = "new" => errs' = <<>>]_vars

\* The second Change of a plan starts its fan-out, with instances, after
\* the first Change's queue has ended: the collector is empty.
C27_Witness ==
    /\ pc = "fanout"
    /\ cur = 2
    /\ endRuns[1] = 1
    /\ input.kind = "listInsts"
    /\ change.n > 0
    /\ errs = <<>>

\* C28: a Change that has handed an error to nextSvc, whatever the error
\* (the listing's, the too-old cnapi's or a MultiError), is the last
\* Change of the run: execute's callback has been called with that error,
\* no Change after it has made a call or ended a queue, and from then on
\* no listing, install-agent call or poll query is made.
C28_FailedChangeIsLast ==
    /\ [](\A c \in FailedChanges :
             /\ c = cur /\ pc = "done"
             /\ cbArgs = <<outcome[c][1]>>
             /\ \A d \in DOMAIN outcome :
                   d > c => outcome[d] = <<>> /\ endRuns[d] = 0)
    /\ [][FailedChanges # {} =>
             UNCHANGED <<cur, calls, started, posts, polls>>]_vars

\* The first of two Changes failed with a MultiError after an instance
\* was polled: the callback has it and the second Change was never
\* entered.
C28_Witness ==
    /\ nChanges = 2 /\ cur = 1 /\ pc = "done"
    /\ FailedChanges = {1}
    /\ outcome[1][1][1].code = "MultiError"
    /\ \E i \in DOMAIN polls : polls[i] > 0
    /\ cbArgs = <<outcome[1][1]>>
    /\ outcome[2] = <<>>

\* The latest callback was a poll reply that reports a terminal state: a
\* task complete or failed, or the cn-agent entry with the target image.
TerminalReply ==
    /\ input.kind \in {"getTask", "getServer"} /\ input.err = <<>>
    /\ input.kind = "getTask" => input.status \in {"complete", "failure"}
    /\ input.kind = "getServer" => input.image_uuid = change.image.uuid

\* C29: when the 60th query of a poll reports a terminal state the poll
\* ends with that state's result: without error for a complete task or
\* the target image, with the 'Task <id> failed' error for a failed task;
\* never with the timeout error.
C29_TerminalBeforeBudget ==
    TerminalReply /\ HistOf = cur /\ polls[input.server] = limit =>
        LET i == input.server
            ok == input.kind = "getServer" \/ input.status = "complete"
        IN  /\ result[i].done
            /\ insts[i].st = "done"
            /\ ok => result[i].err = <<>> /\ errs = <<>>
            /\ ~ok => /\ result[i].err # <<>>
                      /\ ~IsTimeout(result[i].err[1])
                      /\ result[i].err[1].message[1] = "Task "
                      /\ result[i].err[1].message[3] = " failed"

\* The 60th getServer query found the target image on the cn-agent entry
\* and the poll ended without error.
C29_Witness ==
    /\ TerminalReply
    /\ input.kind = "getServer"
    /\ polls[input.server] = limit
    /\ result[input.server].done
    /\ result[input.server].err = <<>>
    /\ cbArgs = <<<<>>>>

\* The latest call into lib/errors was of a wrapped callback.
Wrapped == made.kind = "wrapped"
\* Its first argument is an error (not null or undefined).
WrappedWithError == made.args[2] # <<>> /\ made.args[2][1] # <<>>

\* What a wrapped callback is to do on its arguments: one call of cb,
\* with a first argument that is an error replaced by an SDCClientError
\* of the client that has it as cause, and all else as it came.
HandsOn ==
    /\ ~made.threw
    /\ Len(made.cb) = 1
    /\ Len(made.cb[1]) = Len(made.args[2])
    /\ \A k \in 2 .. Len(made.args[2]) : made.cb[1][k] = made.args[2][k]
    /\ IF WrappedWithError
       THEN LET e == made.cb[1][1][1]
            IN  /\ e.code = "SDCClient"
                /\ e.cause = made.args[2][1]
                /\ e.message[1] = made.args[1]
       ELSE made.cb[1] = made.args[2]

PrerequisiteSteps == {"checkFeatureDeps", "onGotImagesVersions", "onlistServers"}

\* C31: with --force or --disable no prerequisite step checks anything or
\* calls out (no getImgsForSvcVms, no listServers, nothing reported, no
\* failure) and the run reaches the flag update as it started; without
\* them a failing prerequisite step ends the command with its error, and
\* neither updateApplication is called nor SAPI changed.
C31_ForceSkipsPrerequisites ==
    /\ (run.step # "idle" /\ validateArgs(run.args) = <<>>
        /\ (run.force \/ run.disable))
       => /\ run.calls \subseteq {"updateApplication"}
          /\ run.failed \notin PrerequisiteSteps
          /\ run.step \notin {"onGotImagesVersions", "onlistServers"}
          /\ run.step \in {"checkFeatureDeps", "getDependenciesImageVersions",
                           "checkPlatformDep",
                           "updateDockerNfSharedVolumesFlag"}
             => /\ run.progress = <<>>
                /\ run.calls = {}
                /\ ~run.didSomething
    /\ run.failed \in PrerequisiteSteps
       => /\ ~run.force /\ ~run.disable
          /\ run.step = "ended"
          /\ Len(run.cb) = 1 /\ run.cb[1] # <<>>
          /\ "updateApplication" \notin run.calls
          /\ ~run.didSomething
          /\ sapi = run.metadata

\* --disable of docker-automount, over a docker flag that is not set and
\* would fail the feature check, has reached the flag update.
C31_Witness ==
    /\ run.step = "updateDockerNfSharedVolumesFlag"
    /\ run.disable /\ ~run.force
    /\ run.args = <<"docker-automount">>
    /\ run.metadata[FEATURE_NAME_TO_SAPI_FLAG("docker")] = Undefined


\* The flag-update step of the run has been taken.
PastFlagUpdate ==
    /\ run.step \in {"onSdcAppUpdated", "done", "ended", "crashed"}
    /\ validateArgs(run.args) = <<>>
    /\ run.failed \notin PrerequisiteSteps

\* The command line of the run is the one of the successful run before.
SameCommandAgain ==
    run.prev = <<[args |-> run.args, force |-> run.force,
                  disable |-> run.disable]>>

\* C32: once the flag-update step is taken, updateApplication has been
\* called if and only if the metadata value of the flag, as the command
\* read it, is not the desired boolean; when it is, SAPI is left as it was
\* and the command ends reporting 'already enabled' or 'already disabled';
\* the same command right after its successful run calls no update.
C32_UpdateIffDifferent ==
    PastFlagUpdate
    => /\ ("updateApplication" \in run.calls)
          <=> (run.metadata[sapiFlagName] # desiredSapiFlagValue)
       /\ run.didSomething <=> ("updateApplication" \in run.calls)
       /\ run.metadata[sapiFlagName] = desiredSapiFlagValue
          => /\ sapi = run.metadata
             /\ run.step \in {"done", "ended"}
             /\ run.step = "ended"
                => /\ run.cb = <<<<>>>>
                   /\ run.progress[Len(run.progress)] =
                        <<featureName, " NFS volumes support already ",
                          (IF run.disable THEN "disabled" ELSE "enabled")>>
       /\ SameCommandAgain => "updateApplication" \notin run.calls

\* 'nfs-volumes docker', run again right after it succeeded, has ended
\* without an update, reporting that the support is already enabled.
C32_Witness ==
    /\ run.step = "ended"
    /\ run.args = <<"docker">> /\ ~run.force /\ ~run.disable
    /\ SameCommandAgain
    /\ run.cb = <<<<>>>>
    /\ run.calls = {"getImgsForSvcVms"}
    /\ run.progress[Len(run.progress)] =
          <<"docker", " NFS volumes support already ", "enabled">>


\* The run has reported a VM whose version does not match.
ReportedOutdatedVm ==
    \E k \in DOMAIN run.progress :
        run.progress[k][Len(run.progress[k])] =
            " does not match dependencies requirements"

\* C33: enabling docker or cloudapi without --force, once a VM of a
\* dependency service is found at a version that does not match, the
\* command has ended with the 'Found outdated core services' error,
\* without an updateApplication call and with SAPI as it was.
C33_OutdatedServicesFail ==
    (/\ run.args \in {<<"docker">>, <<"cloudapi">>}
     /\ ~run.force /\ ~run.disable
     /\ ReportedOutdatedVm)
    => /\ run.step = "ended"
       /\ Len(run.cb) = 1 /\ run.cb[1] # <<>>
       /\ run.cb[1][1].message[1] = "Found outdated core services: "
       /\ "updateApplication" \notin run.calls
       /\ sapi = run.metadata

\* The run before was a successful 'nfs-volumes docker'.
AfterDockerEnabled ==
    \E force \in BOOLEAN :
        run.prev = <<[args |-> <<"docker">>, force |-> force,
                      disable |-> FALSE]>>

\* C34: 'nfs-volumes docker-automount' without --force, run right after a
\* successful 'nfs-volumes docker', does not fail in checkFeatureDeps.
C34_ChecksAgreeOnEnabled ==
    (/\ AfterDockerEnabled
     /\ run.args = <<"docker-automount">>
     /\ ~run.force)
    => run.failed # "checkFeatureDeps"

====
